---- MODULE Spec2Model ----
(***************************************************************************)
(* Verification model of the microfactory workflow runner: the workflow    *)
(* context (src/src/context.rs), the micro tasks and vote tally            *)
(* (src/src/tasks/mod.rs), the scheduler (src/src/application/runner.rs)   *)
(* and the session use cases (src/src/application/service.rs).             *)
(***************************************************************************)
EXTENDS Integers, Sequences, FiniteSets, TLC

VARIABLES
    context,      \* the WorkflowContext owned by the running session
    options,      \* RunnerOptions of the FlowRunner in use
    domain_cfg,   \* DomainRuntimeConfig of the session's domain
    pc,           \* position of the caller / runner: idle, loop, returned
    outcome,      \* result of the last execute call
    caller,       \* who invoked execute: none, direct, run, resume
    hist,         \* observation of the work items executed by the current execute call,
                  \* of the pause it resumed from, and the items the session may run
    store,        \* the session record of the SessionStore
    tally         \* inputs and results of the vote-tally functions

vars == <<context, options, domain_cfg, pc, outcome, caller, hist, store, tally>>

(***************************************************************************)
(* Bounds                                                                  *)
(***************************************************************************)
MaxVotes == 4
MaxCand == 3
MaxK == 2
\* work items executed in one session, over all of its execute calls
MaxItems == 5
\* responses a scripted model holds for one sampling task
MaxScript == 2
\* responses a scripted model holds for one vote
MaxVoters == 2
\* samples asked of the collector, and the responses its scripted model holds
MaxTarget == 2
MaxResponses == 5

\* Option<T>: None is the empty sequence, Some(x) the one-element sequence
None == <<>>
Some(x) == <<x>>
IsSome(o) == o # <<>>
Unwrap(o) == o[1]

(***************************************************************************)
(* Generic helpers                                                         *)
(***************************************************************************)
SeqsUpTo(S, n) == UNION {[1..m -> S] : m \in 0..n}

Perms(S) == {p \in [1..Cardinality(S) -> S] : \A i, j \in 1..Cardinality(S) : i # j => p[i] # p[j]}

RemoveAt(s, i) == SubSeq(s, 1, i - 1) \o SubSeq(s, i + 1, Len(s))

Prefix(s, n) == SubSeq(s, 1, n)

SetMax(S) == CHOOSE x \in S : \A y \in S : y <= x

(***************************************************************************)
(* Vote tally (src/src/tasks/mod.rs)                                       *)
(***************************************************************************)
\* counts after streaming a prefix of the votes: the HashMap<usize, usize>
CountOf(votes, c) == Cardinality({i \in 1..Len(votes) : votes[i] = c})

KeysOf(votes) == {votes[i] : i \in 1..Len(votes)}

\* counts.iter().collect(): the keys in the map's iteration order
IterKeys(votes, order) == SelectSeq(order, LAMBDA c : c \in KeysOf(votes))

\* ordered.sort_by(|a, b| b.1.cmp(a.1)): stable sort by descending count
RECURSIVE SortByCountDesc(_, _)
SortByCountDesc(keys, votes) ==
    IF keys = <<>> THEN <<>>
    ELSE LET m == SetMax({CountOf(votes, keys[i]) : i \in 1..Len(keys)})
             i == CHOOSE j \in 1..Len(keys) :
                      /\ CountOf(votes, keys[j]) = m
                      /\ \A h \in 1..(j - 1) : CountOf(votes, keys[h]) # m
         IN <<keys[i]>> \o SortByCountDesc(RemoveAt(keys, i), votes)

\* a tally that decides as soon as the leader holds k votes, whatever the
\* runner-up holds
AheadStepLeaderOnly(votes, k, order, n) ==
    LET seen == Prefix(votes, n)
        ordered == SortByCountDesc(IterKeys(seen, order), seen)
    IN IF CountOf(seen, ordered[1]) >= k THEN Some(ordered[1]) ELSE None

\* the decision taken after the vote at index n, if any
AheadStep(votes, k, order, n) ==
    LET seen == Prefix(votes, n)
        ordered == SortByCountDesc(IterKeys(seen, order), seen)
    IN IF Len(ordered) = 1
       THEN IF CountOf(seen, ordered[1]) >= k THEN Some(ordered[1]) ELSE None
       ELSE IF CountOf(seen, ordered[1]) >= CountOf(seen, ordered[2]) + k
            THEN Some(ordered[1]) ELSE None

RECURSIVE AheadFrom(_, _, _, _)
AheadFrom(votes, k, order, n) ==
    IF n > Len(votes) THEN None
    ELSE IF IsSome(AheadStep(votes, k, order, n))
         THEN AheadStep(votes, k, order, n)
         ELSE AheadFrom(votes, k, order, n + 1)

first_to_ahead_by_k(votes, k, order) ==
    IF votes = <<>> THEN None ELSE AheadFrom(votes, k, order, 1)

\* the loop of majority_vote: st = [leader, leader_count] after n votes
RECURSIVE MajorityLoop(_, _, _)
MajorityLoop(votes, n, st) ==
    IF n > Len(votes) THEN Some(st.leader)
    ELSE LET entry == CountOf(Prefix(votes, n), votes[n])
         IN IF entry > st.leader_count
            THEN MajorityLoop(votes, n + 1, [leader |-> votes[n], leader_count |-> entry])
            ELSE MajorityLoop(votes, n + 1, st)

majority_vote(votes) ==
    IF votes = <<>> THEN None
    ELSE MajorityLoop(votes, 1, [leader |-> votes[1], leader_count |-> 0])

(***************************************************************************)
(* Workflow context (src/src/context.rs)                                   *)
(***************************************************************************)
StepStatus == {"Pending", "Running", "WaitingOnInput", "Completed", "Failed"}

WorkItemKinds == {"Decomposition", "DecompositionVote", "Solve", "SolutionVote", "ApplyVerify"}

WorkItem(kind, step_id) == [kind |-> kind, step_id |-> step_id]

\* a description is kept as its number of whitespace-separated words
WorkflowStep(id, description, parent, depth) ==
    [id |-> id, description |-> description, parent |-> parent, depth |-> depth,
     status |-> "Pending", children |-> <<>>, candidate_solutions |-> <<>>,
     winning_solution |-> None]

EmptyMap == [x \in {} |-> 0]

MapInsert(m, key, v) == [x \in DOMAIN m \cup {key} |-> IF x = key THEN v ELSE m[x]]

MapRemove(m, key) == [x \in DOMAIN m \ {key} |-> m[x]]

StepMetricsDefault ==
    [samples_requested |-> 0, samples_retained |-> 0, resamples |-> 0, red_flags |-> 0,
     vote_margin |-> None, verification_passed |-> None]

VoteStatsDefault == [recent_margins |-> <<>>, total_votes |-> 0]

WorkflowMetricsDefault == [per_step |-> EmptyMap, vote_history |-> EmptyMap]

ContextDefault ==
    [prompt |-> 0, steps |-> <<>>, current_step |-> 0, metrics |-> WorkflowMetricsDefault,
     dry_run |-> FALSE, next_step_id |-> 0, root_step_id |-> None,
     pending_decompositions |-> EmptyMap, pending_solutions |-> EmptyMap,
     work_queue |-> <<>>, wait_state |-> None]

\* steps.iter().position(|step| step.id == step_id), 0 when there is none
StepIndex(ctx, step_id) ==
    IF \E i \in 1..Len(ctx.steps) : ctx.steps[i].id = step_id
    THEN CHOOSE i \in 1..Len(ctx.steps) :
             /\ ctx.steps[i].id = step_id
             /\ \A j \in 1..(i - 1) : ctx.steps[j].id # step_id
    ELSE 0

HasStep(ctx, step_id) == StepIndex(ctx, step_id) # 0

step(ctx, step_id) == ctx.steps[StepIndex(ctx, step_id)]

\* returns the context; the new id is the next_step_id of the argument
create_step(ctx, description, parent, depth) ==
    [ctx EXCEPT !.next_step_id = @ + 1,
                !.steps = Append(@, WorkflowStep(ctx.next_step_id, description, parent, depth))]

enqueue_work(ctx, item) == [ctx EXCEPT !.work_queue = Append(@, item)]

\* a follow-up pushed to the back of the queue
EnqueueBack(ctx, item) == [ctx EXCEPT !.work_queue = Append(@, item)]

enqueue_work_front(ctx, item) == [ctx EXCEPT !.work_queue = <<item>> \o @]

dequeue_work(ctx) == [ctx EXCEPT !.work_queue = Tail(@)]

has_pending_work(ctx) == ctx.work_queue # <<>>

ContextNew(prompt) ==
    LET c1 == create_step([ContextDefault EXCEPT !.prompt = prompt], prompt, None, 0)
        c2 == [c1 EXCEPT !.root_step_id = Some(0), !.current_step = 0]
    IN enqueue_work(c2, WorkItem("Decomposition", 0))

\* a root created whether or not there is one
EnsureRootAlways(ctx) ==
    LET prompt == IF ctx.prompt = 0 THEN 2 ELSE ctx.prompt
        c1 == create_step(ctx, prompt, None, 0)
    IN [c1 EXCEPT !.root_step_id = Some(ctx.next_step_id),
                  !.current_step = ctx.next_step_id]

\* Context::ensure_root; the id returned is the root_step_id of the result

\* an empty prompt becomes "root task" (two words)
ensure_root(ctx) ==
    IF IsSome(ctx.root_step_id) THEN ctx
    ELSE LET prompt == IF ctx.prompt = 0 THEN 2 ELSE ctx.prompt
             c1 == create_step(ctx, prompt, None, 0)
         IN [c1 EXCEPT !.root_step_id = Some(ctx.next_step_id),
                       !.current_step = ctx.next_step_id]

\* a child created at the depth of its parent
AddChildSameDepth(ctx, parent, description) ==
    LET depth == IF HasStep(ctx, parent) THEN step(ctx, parent).depth ELSE 0
        c1 == create_step(ctx, description, Some(parent), depth)
    IN IF HasStep(c1, parent)
       THEN [c1 EXCEPT !.steps[StepIndex(c1, parent)].children = Append(@, ctx.next_step_id)]
       ELSE c1

\* Context::add_child_step

add_child_step(ctx, parent, description) ==
    LET depth == IF HasStep(ctx, parent) THEN step(ctx, parent).depth + 1 ELSE 0
        c1 == create_step(ctx, description, Some(parent), depth)
    IN IF HasStep(c1, parent)
       THEN [c1 EXCEPT !.steps[StepIndex(c1, parent)].children = Append(@, ctx.next_step_id)]
       ELSE c1

mark_step_status(ctx, step_id, status) ==
    IF HasStep(ctx, step_id)
    THEN [ctx EXCEPT !.steps[StepIndex(ctx, step_id)].status = status]
    ELSE ctx

\* a step completed without recording its winner
MarkCompletedOnly(ctx, step_id, winner) ==
    IF \E i \in 1..Len(ctx.steps) : ctx.steps[i].id = step_id
    THEN [ctx EXCEPT !.steps = [i \in 1..Len(ctx.steps) |->
                                   IF ctx.steps[i].id = step_id
                                   THEN [ctx.steps[i] EXCEPT !.status = "Completed"]
                                   ELSE ctx.steps[i]]]
    ELSE ctx

mark_step_solution(ctx, step_id, winner) ==
    IF HasStep(ctx, step_id)
    THEN [ctx EXCEPT !.steps[StepIndex(ctx, step_id)].winning_solution = Some(winner),
                     !.steps[StepIndex(ctx, step_id)].status = "Completed"]
    ELSE ctx

\* the run counted and the proposals dropped
RegisterCountOnly(ctx, step_id, proposals) == ctx

register_decomposition(ctx, step_id, proposals) ==
    [ctx EXCEPT !.pending_decompositions = MapInsert(@, step_id, proposals)]

take_decomposition(ctx, step_id) ==
    [ctx EXCEPT !.pending_decompositions = MapRemove(@, step_id)]

\* candidates registered for the vote while the step keeps the candidates it
\* already holds
RegisterKeepFirst(ctx, step_id, candidates) ==
    IF HasStep(ctx, step_id) /\ step(ctx, step_id).candidate_solutions = <<>>
    THEN [ctx EXCEPT !.steps[StepIndex(ctx, step_id)].candidate_solutions = candidates,
                     !.pending_solutions = MapInsert(@, step_id, candidates)]
    ELSE [ctx EXCEPT !.pending_solutions = MapInsert(@, step_id, candidates)]

register_solutions(ctx, step_id, candidates) ==
    LET c1 == IF HasStep(ctx, step_id)
              THEN [ctx EXCEPT !.steps[StepIndex(ctx, step_id)].candidate_solutions = candidates]
              ELSE ctx
    IN [c1 EXCEPT !.pending_solutions = MapInsert(@, step_id, candidates)]

take_solutions(ctx, step_id) ==
    [ctx EXCEPT !.pending_solutions = MapRemove(@, step_id)]

WaitState(step_id, trigger) == [step_id |-> step_id, trigger |-> trigger]

\* the wait record erased and the waiting step left as it is
ClearRecordOnly(ctx) == [ctx EXCEPT !.wait_state = None]

clear_wait_state(ctx) ==
    IF IsSome(ctx.wait_state)
    THEN LET wait == Unwrap(ctx.wait_state)
             c1 == [ctx EXCEPT !.wait_state = None]
         IN IF HasStep(c1, wait.step_id) /\ step(c1, wait.step_id).status = "WaitingOnInput"
            THEN mark_step_status(c1, wait.step_id, "Pending")
            ELSE c1
    ELSE ctx

set_wait_state(ctx, step_id, trigger) ==
    mark_step_status([ctx EXCEPT !.wait_state = Some(WaitState(step_id, trigger))],
                     step_id, "WaitingOnInput")

\* a checkpoint recorded as a wait on input of the step
CheckpointAsWait(ctx, step_id, trigger) ==
    IF HasStep(ctx, step_id)
    THEN [ctx EXCEPT !.wait_state = Some(WaitState(step_id, trigger)),
                     !.steps[StepIndex(ctx, step_id)].status = "WaitingOnInput"]
    ELSE [ctx EXCEPT !.wait_state = Some(WaitState(step_id, trigger))]

\* the checkpoint record of a step_by_step pause: the wait record alone; the
\* step keeps its status (runner.rs:1019-1034 completes on the third execute)
set_checkpoint(ctx, step_id, trigger) ==
    [ctx EXCEPT !.wait_state = Some(WaitState(step_id, trigger))]

(***************************************************************************)
(* Workflow metrics (src/src/context.rs)                                   *)
(***************************************************************************)
\* per_step.entry(step_id).or_default()
step_metrics_mut(ctx, step_id) ==
    IF step_id \in DOMAIN ctx.metrics.per_step THEN ctx
    ELSE [ctx EXCEPT !.metrics.per_step = MapInsert(@, step_id, StepMetricsDefault)]

record_samples(ctx, step_id, requested, retained) ==
    [step_metrics_mut(ctx, step_id) EXCEPT
        !.metrics.per_step[step_id].samples_requested = @ + requested,
        !.metrics.per_step[step_id].samples_retained = @ + retained]

record_resample(ctx, step_id) ==
    [step_metrics_mut(ctx, step_id) EXCEPT !.metrics.per_step[step_id].resamples = @ + 1]

record_red_flags(ctx, step_id, incidents) ==
    [step_metrics_mut(ctx, step_id) EXCEPT !.metrics.per_step[step_id].red_flags = @ + incidents]

RingCapacity == 8

\* the difference of the counts recorded as it is, without the floor of 1
RecordRawMargin(ctx, step_id, agent_kind, winner_count, runner_up_count) ==
    LET margin == IF winner_count < runner_up_count THEN 0
                  ELSE winner_count - runner_up_count
        c1 == [step_metrics_mut(ctx, step_id) EXCEPT
                  !.metrics.per_step[step_id].vote_margin = Some(margin)]
        stats == IF agent_kind \in DOMAIN c1.metrics.vote_history
                 THEN c1.metrics.vote_history[agent_kind] ELSE VoteStatsDefault
        kept == IF Len(stats.recent_margins) >= RingCapacity
                THEN Tail(stats.recent_margins) ELSE stats.recent_margins
    IN [c1 EXCEPT !.metrics.vote_history =
           MapInsert(@, agent_kind, [recent_margins |-> Append(kept, margin),
                                     total_votes |-> stats.total_votes + 1])]

\* a ring that drops its newest entry when it is full
RecordEvictNewest(ctx, step_id, agent_kind, winner_count, runner_up_count) ==
    LET margin == IF winner_count - runner_up_count < 1 THEN 1
                  ELSE winner_count - runner_up_count
        c1 == [step_metrics_mut(ctx, step_id) EXCEPT
                  !.metrics.per_step[step_id].vote_margin = Some(margin)]
        stats == IF agent_kind \in DOMAIN c1.metrics.vote_history
                 THEN c1.metrics.vote_history[agent_kind] ELSE VoteStatsDefault
        kept == IF Len(stats.recent_margins) >= RingCapacity
                THEN SubSeq(stats.recent_margins, 1, Len(stats.recent_margins) - 1)
                ELSE stats.recent_margins
    IN [c1 EXCEPT !.metrics.vote_history =
           MapInsert(@, agent_kind, [recent_margins |-> Append(kept, margin),
                                     total_votes |-> stats.total_votes + 1])]

\* WorkflowMetrics::record_vote
record_vote(ctx, step_id, agent_kind, winner_count, runner_up_count) ==
    LET margin == IF winner_count - runner_up_count < 1 THEN 1
                  ELSE winner_count - runner_up_count
        c1 == [step_metrics_mut(ctx, step_id) EXCEPT
                  !.metrics.per_step[step_id].vote_margin = Some(margin)]
        stats == IF agent_kind \in DOMAIN c1.metrics.vote_history
                 THEN c1.metrics.vote_history[agent_kind] ELSE VoteStatsDefault
        kept == IF Len(stats.recent_margins) >= RingCapacity
                THEN Tail(stats.recent_margins) ELSE stats.recent_margins
    IN [c1 EXCEPT !.metrics.vote_history =
           MapInsert(@, agent_kind, [recent_margins |-> Append(kept, margin),
                                     total_votes |-> stats.total_votes + 1])]

(***************************************************************************)
(* Micro tasks (src/src/tasks/mod.rs)                                      *)
(*                                                                         *)
(* The language model is a script: the sequence of responses it will give, *)
(* one per sample call; a call that finds the script exhausted fails.  A   *)
(* sampled response is [raw, matches]: its text and the number of red-flag *)
(* matches the pipeline reports for it.                                    *)
(***************************************************************************)
Sample(raw, matches) == [raw |-> raw, matches |-> matches]

\* TaskResult::continue_with(effect)
TaskOk(ctx, effect) == [ok |-> TRUE, ctx |-> ctx, action |-> "Continue", effect |-> effect]

\* the Err of a task's run, with the context as the task left it
TaskErr(ctx) == [ok |-> FALSE, ctx |-> ctx, action |-> "Continue", effect |-> [kind |-> "None"]]

RECURSIVE SumMatches(_)
SumMatches(batch) ==
    IF batch = <<>> THEN 0 ELSE Head(batch).matches + SumMatches(Tail(batch))

Max2(a, b) == IF a >= b THEN a ELSE b

Min2(a, b) == IF a <= b THEN a ELSE b

\* every sample of a batch kept, flagged or not
AcceptAll(batch) == batch

\* the samples of a batch whose red-flag evaluation found no match
AcceptBatch(batch) == SelectSeq(batch, LAMBDA s : s.matches = 0)

\* the batch in the order join_set.join_next() hands its evaluations back:
\* perm[i] is the place in the batch of the i-th evaluation to complete
Arrive(batch, perm) == [i \in 1..Len(batch) |-> batch[perm[i]]]

\* a permutation of 1..m as the order of completion of a batch of n <= m
Restrict(perm, n) == SelectSeq(perm, LAMBDA x : x <= n)

CollectFailed(ctx, calls) ==
    [done |-> TRUE, ok |-> FALSE, ctx |-> ctx, samples |-> <<>>, calls |-> calls,
     llm |-> <<>>, st |-> [accepted |-> <<>>, attempts |-> calls]]

CollectDone(ctx, accepted, calls) ==
    [done |-> TRUE, ok |-> TRUE, ctx |-> ctx, samples |-> accepted, calls |-> calls,
     llm |-> <<>>, st |-> [accepted |-> accepted, attempts |-> calls]]

\* the budget checked with > instead of >=
CollectRecordedLate(ctx, step_id, target_samples, rest, accepted, attempts) ==
    IF Len(accepted) < target_samples
    THEN IF attempts > Max2(target_samples, 1) * 4
         THEN CollectFailed(record_resample(ctx, step_id), attempts)
         ELSE [done |-> FALSE, ok |-> TRUE, ctx |-> record_resample(ctx, step_id),
               samples |-> <<>>, calls |-> attempts, llm |-> rest,
               st |-> [accepted |-> accepted, attempts |-> attempts]]
    ELSE CollectDone(ctx, accepted, attempts)

\* the end of one pass of the while loop, after the batch was evaluated
CollectRecorded(ctx, step_id, target_samples, rest, accepted, attempts) ==
    IF Len(accepted) < target_samples
    THEN IF attempts >= Max2(target_samples, 1) * 4
         THEN CollectFailed(record_resample(ctx, step_id), attempts)
         ELSE [done |-> FALSE, ok |-> TRUE, ctx |-> record_resample(ctx, step_id),
               samples |-> <<>>, calls |-> attempts, llm |-> rest,
               st |-> [accepted |-> accepted, attempts |-> attempts]]
    ELSE CollectDone(ctx, accepted, attempts)

\* the evaluation of one batch, in its order of completion
CollectBatch(ctx, step_id, target_samples, rest, st, arrived) ==
    CollectRecorded(
        record_samples(IF SumMatches(arrived) > 0
                       THEN record_red_flags(ctx, step_id, SumMatches(arrived))
                       ELSE ctx,
                       step_id, Len(arrived), Len(AcceptBatch(arrived))),
        step_id, target_samples, rest, st.accepted \o AcceptBatch(arrived),
        st.attempts + 1)

\* one pass of the while loop of collect_inner; st = [accepted, attempts],
\* perm the order of completion of the evaluations of the batch
CollectIteration(ctx, step_id, target_samples, llm, st, perm) ==
    IF Len(llm) < target_samples - Len(st.accepted)
    THEN CollectFailed(ctx, st.attempts + 1)
    ELSE CollectBatch(ctx, step_id, target_samples,
                      SubSeq(llm, target_samples - Len(st.accepted) + 1, Len(llm)), st,
                      Arrive(SubSeq(llm, 1, target_samples - Len(st.accepted)), perm))

\* the while loop of collect_inner; completion[n] orders the evaluations of
\* the n-th batch
RECURSIVE CollectLoop(_, _, _, _, _, _)
CollectNext(r, step_id, target_samples, completion) ==
    IF r.done THEN r
    ELSE CollectLoop(r.ctx, step_id, target_samples, r.llm, r.st, completion)

CollectLoop(ctx, step_id, target_samples, llm, st, completion) ==
    IF Len(st.accepted) >= target_samples
    THEN CollectDone(ctx, st.accepted, st.attempts)
    ELSE CollectNext(
             CollectIteration(ctx, step_id, target_samples, llm, st,
                 Restrict(completion[st.attempts + 1],
                          Min2(target_samples - Len(st.accepted), Len(llm)))),
             step_id, target_samples, completion)

\* SampleCollector::collect_inner; pipeline_empty = self.pipeline.is_empty()
collect_inner(ctx, step_id, pipeline_empty, target_samples, llm, completion) ==
    IF target_samples = 0
    THEN CollectDone(ctx, <<>>, 0)
    ELSE IF pipeline_empty
         THEN IF Len(llm) < target_samples
              THEN CollectFailed(ctx, 1)
              ELSE CollectDone(record_samples(ctx, step_id, target_samples, target_samples),
                               SubSeq(llm, 1, target_samples), 1)
         ELSE CollectLoop(ctx, step_id, target_samples, llm,
                          [accepted |-> <<>>, attempts |-> 0], completion)

\* the orders of completion a collection may meet: one permutation for each
\* batch it can draw from the script
CompletionOrders(pipeline_empty, target_samples, llm) ==
    IF pipeline_empty THEN {<<>>}
    ELSE [1..Len(llm) -> Perms(1..target_samples)]

\* a decomposition response is the sequence of its lines, each line the
\* number of words left after trimming the bullet (0: a blank line)
parse_subtasks(raw) == SelectSeq(raw, LAMBDA words : words > 0)

DecompositionProposal(id, raw, subtasks) == [id |-> id, raw |-> raw, subtasks |-> subtasks]

\* a vote response is the sequence of its tokens, each token the integer its
\* ASCII digits spell (0 when it has none or spells zero)
RECURSIVE parse_vote_response(_, _)
parse_vote_response(raw, max_index) ==
    IF max_index = 0 \/ raw = <<>> THEN None
    ELSE IF Head(raw) >= 1 /\ Head(raw) <= max_index THEN Some(Head(raw) - 1)
         ELSE parse_vote_response(Tail(raw), max_index)

RECURSIVE ParseVotes(_, _)
ParseVotes(raw_votes, max_index) ==
    IF raw_votes = <<>> THEN <<>>
    ELSE parse_vote_response(Head(raw_votes), max_index)
             \o ParseVotes(Tail(raw_votes), max_index)

vote_counts(votes, candidate_count, winner_idx) ==
    IF candidate_count = 0 THEN <<0, 0>>
    ELSE LET winner == IF winner_idx < candidate_count THEN CountOf(votes, winner_idx) ELSE 0
             others == {CountOf(votes, c) : c \in (0..(candidate_count - 1)) \ {winner_idx}}
         IN <<winner, SetMax(others \cup {0})>>

\* a selection that falls back to the last candidate when no vote decides
SelectWinnerLast(votes, k, order, candidate_count) ==
    LET ahead == first_to_ahead_by_k(votes, k, order)
        chosen == IF IsSome(ahead) THEN ahead ELSE majority_vote(votes)
    IN IF IsSome(chosen) THEN Min2(Unwrap(chosen), candidate_count - 1)
       ELSE candidate_count - 1

\* first_to_ahead_by_k(..).or_else(|| majority_vote(..)).unwrap_or(0).min(len - 1)
select_winner(votes, k, order, candidate_count) ==
    LET ahead == first_to_ahead_by_k(votes, k, order)
        chosen == IF IsSome(ahead) THEN ahead ELSE majority_vote(votes)
    IN Min2(IF IsSome(chosen) THEN Unwrap(chosen) ELSE 0, candidate_count - 1)

\* in.render: whether render_prompt succeeds; in.llm: the model's script;
\* in.completion: the order in which the red-flag evaluations complete
DecompositionTaskRun(ctx, step_id, prompt, agent, pipeline_empty, in) ==
    IF ~in.render THEN TaskErr(ctx)
    ELSE LET c1 == mark_step_status(ctx, step_id, "Running")
             col == collect_inner(c1, step_id, pipeline_empty, Max2(agent.samples, 1), in.llm,
                                   in.completion)
             proposals == [i \in 1..Len(col.samples) |->
                              LET subtasks == parse_subtasks(col.samples[i].raw)
                              IN DecompositionProposal(i - 1, col.samples[i].raw,
                                     IF subtasks = <<>> THEN <<prompt>> ELSE subtasks)]
         IN IF ~col.ok \/ proposals = <<>> THEN TaskErr(col.ctx)
            ELSE TaskOk(register_decomposition(col.ctx, step_id, proposals), [kind |-> "None"])

RECURSIVE AddChildren(_, _, _)
AddChildren(ctx, parent, subtasks) ==
    IF subtasks = <<>> THEN ctx
    ELSE AddChildren(add_child_step(ctx, parent, Head(subtasks)), parent, Tail(subtasks))

\* in.order: the iteration order of the HashMap inside first_to_ahead_by_k
DecompositionVoteTaskRun(ctx, step_id, agent, vote_k, in) ==
    IF step_id \notin DOMAIN ctx.pending_decompositions THEN TaskErr(ctx)
    ELSE LET proposals == ctx.pending_decompositions[step_id]
             c1 == take_decomposition(ctx, step_id)
             samples == Max2(agent.samples, 1)
         IN IF ~in.render \/ Len(in.llm) < samples THEN TaskErr(c1)
            ELSE LET votes == ParseVotes(SubSeq(in.llm, 1, samples), Len(proposals))
                     winner_idx == select_winner(votes, Max2(vote_k, 1), in.order, Len(proposals))
                     counts == vote_counts(votes, Len(proposals), winner_idx)
                     c2 == record_vote(c1, step_id, "DecompositionDiscriminator",
                                       counts[1], counts[2])
                     winner == proposals[winner_idx + 1]
                     c3 == AddChildren(c2, step_id, winner.subtasks)
                 IN TaskOk(c3, [kind |-> "SpawnedSteps",
                                steps |-> [i \in 1..Len(winner.subtasks) |->
                                              c2.next_step_id + i - 1]])

SolveTaskRun(ctx, step_id, agent, pipeline_empty, in) ==
    IF ~HasStep(ctx, step_id) \/ ~in.render THEN TaskErr(ctx)
    ELSE LET col == collect_inner(ctx, step_id, pipeline_empty, Max2(agent.samples, 1), in.llm,
                                   in.completion)
             responses == [i \in 1..Len(col.samples) |-> col.samples[i].raw]
         IN IF ~col.ok \/ responses = <<>> THEN TaskErr(col.ctx)
            ELSE TaskOk(register_solutions(col.ctx, step_id, responses),
                        [kind |-> "SolutionsReady", step_id |-> step_id])

SolutionVoteTaskRun(ctx, step_id, agent, vote_k, in) ==
    IF step_id \notin DOMAIN ctx.pending_solutions THEN TaskErr(ctx)
    ELSE LET solutions == ctx.pending_solutions[step_id]
             c1 == take_solutions(ctx, step_id)
             samples == Max2(agent.samples, 1)
         IN IF ~in.render \/ Len(in.llm) < samples THEN TaskErr(c1)
            ELSE LET votes == ParseVotes(SubSeq(in.llm, 1, samples), Len(solutions))
                     winner_idx == select_winner(votes, Max2(vote_k, 1), in.order, Len(solutions))
                     counts == vote_counts(votes, Len(solutions), winner_idx)
                     c2 == record_vote(c1, step_id, "SolutionDiscriminator",
                                       counts[1], counts[2])
                 IN TaskOk(mark_step_solution(c2, step_id, solutions[winner_idx + 1]),
                           [kind |-> "WinnerSelected", step_id |-> step_id])

\* an ApplyVerify that completes the step whatever the applier and the
\* verifier report
ApplyAlwaysCompleted(ctx, step_id, applier, verifier, in) ==
    IF ~HasStep(ctx, step_id) \/ ~IsSome(step(ctx, step_id).winning_solution)
    THEN TaskErr(ctx)
    ELSE TaskOk(mark_step_status(
                    IF ctx.dry_run THEN ctx
                    ELSE [step_metrics_mut(ctx, step_id) EXCEPT
                             !.metrics.per_step[step_id].verification_passed =
                                 Some(IF verifier THEN in.verified ELSE TRUE)],
                    step_id, "Completed"),
                [kind |-> "StepCompleted", step_id |-> step_id])

\* an ApplyVerify that marks the step and leaves verification_passed alone
ApplyWithoutMetric(ctx, step_id, applier, verifier, in) ==
    IF ~HasStep(ctx, step_id) \/ ~IsSome(step(ctx, step_id).winning_solution)
    THEN TaskErr(ctx)
    ELSE IF ctx.dry_run
         THEN TaskOk(mark_step_status(ctx, step_id, "Completed"),
                     [kind |-> "StepCompleted", step_id |-> step_id])
         ELSE IF applier = "overwrite_file" /\ ~in.applied
              THEN TaskOk(mark_step_status(ctx, step_id, "Failed"), [kind |-> "None"])
              ELSE IF verifier => in.verified
                   THEN TaskOk(mark_step_status(ctx, step_id, "Completed"),
                               [kind |-> "StepCompleted", step_id |-> step_id])
                   ELSE TaskOk(mark_step_status(ctx, step_id, "Failed"), [kind |-> "None"])

\* in.applied: the applier wrote every target; in.verified: the verifier
\* command exited with status zero
ApplyVerifyTaskRun(ctx, step_id, applier, verifier, in) ==
    IF ~HasStep(ctx, step_id) \/ ~IsSome(step(ctx, step_id).winning_solution)
    THEN TaskErr(ctx)
    ELSE IF ctx.dry_run
         THEN TaskOk(mark_step_status(ctx, step_id, "Completed"),
                     [kind |-> "StepCompleted", step_id |-> step_id])
         ELSE IF applier = "overwrite_file" /\ ~in.applied
              THEN TaskOk(mark_step_status(ctx, step_id, "Failed"), [kind |-> "None"])
              ELSE LET verified == IF verifier THEN in.verified ELSE TRUE
                       c1 == [step_metrics_mut(ctx, step_id) EXCEPT
                                 !.metrics.per_step[step_id].verification_passed =
                                     Some(verified)]
                   IN IF verified
                      THEN TaskOk(mark_step_status(c1, step_id, "Completed"),
                                  [kind |-> "StepCompleted", step_id |-> step_id])
                      ELSE TaskOk(mark_step_status(c1, step_id, "Failed"), [kind |-> "None"])

(***************************************************************************)
(* Flow runner (src/src/application/runner.rs)                             *)
(***************************************************************************)
RunnerOptions(samples, k, adaptive_k, depth, words, red_flag, resample, low_margin, sbs) ==
    [default_samples |-> samples, default_k |-> k, adaptive_k |-> adaptive_k,
     max_decomposition_depth |-> depth, min_words_for_decomposition |-> words,
     human_red_flag_threshold |-> red_flag, human_resample_threshold |-> resample,
     human_low_margin_threshold |-> low_margin, step_by_step |-> sbs]

\* RunnerOptions::from_cli
from_cli(samples, k, adaptive_k, step_by_step, human_low_margin_threshold) ==
    RunnerOptions(Max2(samples, 1), Max2(k, 1), adaptive_k, 2, 8, 4, 4,
                  human_low_margin_threshold, step_by_step)

\* AgentSettings::as_agent_config for the four agent kinds
agent_configs(opts, domain) ==
    [kind \in DOMAIN domain.agents |->
        [samples |-> Max2(IF IsSome(domain.agents[kind].samples)
                          THEN Unwrap(domain.agents[kind].samples)
                          ELSE opts.default_samples, 1),
         k |-> IF IsSome(domain.agents[kind].k) THEN domain.agents[kind].k
               ELSE Some(opts.default_k)]]

RECURSIVE SumSeq(_)
SumSeq(s) == IF s = <<>> THEN 0 ELSE Head(s) + SumSeq(Tail(s))

\* avg < base * 0.75 and avg > base * 1.5 with avg = sum / len, cross-multiplied
\* the base k whatever the margins of the earlier votes
ResolveBaseOnly(opts, agent_kind, agent, ctx) ==
    Max2(IF IsSome(agent.k) THEN Unwrap(agent.k) ELSE opts.default_k, 1)

\* FlowRunner::resolve_k
resolve_k(opts, agent_kind, agent, ctx) ==
    LET base == Max2(IF IsSome(agent.k) THEN Unwrap(agent.k) ELSE opts.default_k, 1)
    IN IF ~opts.adaptive_k THEN base
       ELSE IF agent_kind \in DOMAIN ctx.metrics.vote_history
               /\ ctx.metrics.vote_history[agent_kind].recent_margins # <<>>
            THEN LET ring == ctx.metrics.vote_history[agent_kind].recent_margins
                     sum == SumSeq(ring)
                     adjusted == IF 4 * sum < 3 * base * Len(ring) THEN base + 1
                                 ELSE IF 2 * sum > 3 * base * Len(ring) /\ base > 1
                                      THEN base - 1 ELSE base
                 IN Max2(adjusted, 1)
            ELSE base

\* the depth bound left out
RecurseByWordsOnly(opts, ctx, step_id) ==
    IF HasStep(ctx, step_id)
    THEN step(ctx, step_id).description >= opts.min_words_for_decomposition
    ELSE FALSE

\* FlowRunner::should_recurse

\* a child recurses whatever its depth and its description
RecurseAlways(opts, ctx, step_id) == HasStep(ctx, step_id)

should_recurse(opts, ctx, step_id) ==
    IF HasStep(ctx, step_id)
    THEN IF step(ctx, step_id).depth >= opts.max_decomposition_depth THEN FALSE
         ELSE step(ctx, step_id).description >= opts.min_words_for_decomposition
    ELSE FALSE

\* sampling triggers that look at the resamples before the red flags
SamplingResamplesFirst(opts, ctx, step_id, stage) ==
    IF step_id \notin DOMAIN ctx.metrics.per_step THEN None
    ELSE IF opts.human_resample_threshold > 0
            /\ ctx.metrics.per_step[step_id].resamples >= opts.human_resample_threshold
         THEN Some(WaitState(step_id, <<stage, "resamples">>))
         ELSE IF opts.human_red_flag_threshold > 0
                 /\ ctx.metrics.per_step[step_id].red_flags >= opts.human_red_flag_threshold
              THEN Some(WaitState(step_id, <<stage, "red_flags">>))
              ELSE None

check_sampling_triggers(opts, ctx, step_id, stage) ==
    IF step_id \notin DOMAIN ctx.metrics.per_step THEN None
    ELSE LET metrics == ctx.metrics.per_step[step_id]
         IN IF opts.human_red_flag_threshold > 0
               /\ metrics.red_flags >= opts.human_red_flag_threshold
            THEN Some(WaitState(step_id, <<stage, "red_flags">>))
            ELSE IF opts.human_resample_threshold > 0
                    /\ metrics.resamples >= opts.human_resample_threshold
                 THEN Some(WaitState(step_id, <<stage, "resamples">>))
                 ELSE None

\* a vote trigger that fires only below the threshold
LowMarginStrict(opts, ctx, step_id, stage) ==
    IF step_id \notin DOMAIN ctx.metrics.per_step THEN None
    ELSE IF opts.human_low_margin_threshold > 0
            /\ IsSome(ctx.metrics.per_step[step_id].vote_margin)
            /\ Unwrap(ctx.metrics.per_step[step_id].vote_margin)
                   < opts.human_low_margin_threshold
         THEN Some(WaitState(step_id, <<stage, "low_margin">>))
         ELSE None

check_vote_triggers(opts, ctx, step_id, stage) ==
    IF step_id \notin DOMAIN ctx.metrics.per_step THEN None
    ELSE LET metrics == ctx.metrics.per_step[step_id]
         IN IF opts.human_low_margin_threshold > 0
               /\ IsSome(metrics.vote_margin)
               /\ Unwrap(metrics.vote_margin) <= opts.human_low_margin_threshold
            THEN Some(WaitState(step_id, <<stage, "low_margin">>))
            ELSE None

\* a pause that records the wait state and queues nothing
PauseWithoutRetry(ctx, wait, retry_item) ==
    set_wait_state(ctx, wait.step_id, wait.trigger)

\* a pause that queues the retry item twice
PauseRetryTwice(ctx, wait, retry_item) ==
    set_wait_state(enqueue_work_front(enqueue_work_front(ctx, retry_item), retry_item),
                   wait.step_id, wait.trigger)

\* returns the paused context; the outcome is Paused(context.wait_state)
pause_with(ctx, wait, retry_item) ==
    set_wait_state(enqueue_work_front(ctx, retry_item), wait.step_id, wait.trigger)

\* Some(paused context) when the task asked for input, None to go on
handle_next_action(action, current_item, ctx) ==
    IF action = "WaitForInput"
    THEN Some(pause_with(ctx, WaitState(current_item.step_id, <<"task_requested_input">>),
                         current_item))
    ELSE None

\* the SpawnedSteps routing of the DecompositionVote arm
RECURSIVE EnqueueChildren(_, _, _)
EnqueueChildren(opts, ctx, children) ==
    IF children = <<>> THEN ctx
    ELSE EnqueueChildren(opts,
             enqueue_work(ctx, IF should_recurse(opts, ctx, Head(children))
                               THEN WorkItem("Decomposition", Head(children))
                               ELSE WorkItem("Solve", Head(children))),
             Tail(children))

\* root setup and kickstart at the start of execute
ExecuteEntry(ctx) ==
    LET c1 == IF ~IsSome(ctx.root_step_id)
              THEN enqueue_work(ensure_root(ctx), WorkItem("Decomposition", ctx.next_step_id))
              ELSE ctx
    IN IF ~has_pending_work(c1) /\ IsSome(c1.root_step_id)
          /\ HasStep(c1, Unwrap(c1.root_step_id))
          /\ step(c1, Unwrap(c1.root_step_id)).status = "Pending"
       THEN enqueue_work(c1, WorkItem("Decomposition", Unwrap(c1.root_step_id)))
       ELSE c1

Completed == [kind |-> "Completed", wait |-> None]

Paused(ctx) == [kind |-> "Paused", wait |-> ctx.wait_state]

Failure == [kind |-> "Err", wait |-> None]

NoOutcome == [kind |-> "None", wait |-> None]

(***************************************************************************)
(* Inputs of one task run: whether the prompt renders, and the script of   *)
(* the language model                                                      *)
(***************************************************************************)
\* decomposition responses: one short subtask, a long and a short subtask,
\* and a response the red-flag pipeline matches
DecompositionSamples == {Sample(<<1>>, 0), Sample(<<8, 1>>, 0), Sample(<<9>>, 1)}

\* solver responses: one the pipeline matches and as many distinct clean
\* texts as one batch holds
SolveSamples(batch) == {Sample(raw, 0) : raw \in 1..Min2(batch, 2)} \cup {Sample(3, 1)}

\* vote responses: "1" and "2"
VoteResponses == {<<1>>, <<2>>}

HeadItem == Head(context.work_queue)

AtItem(kind) ==
    /\ pc = "loop"
    /\ has_pending_work(context)
    /\ HeadItem.kind = kind
    /\ hist.executed < hist.budget

\* the loop iteration ends the execute call
Return(ctx, out, item) ==
    /\ context' = ctx
    /\ pc' = "returned"
    /\ outcome' = out
    /\ hist' = [hist EXCEPT !.current = Some(item), !.executed = @ + 1]

\* the loop iteration completes and the loop goes on
Continue(ctx, item) ==
    /\ context' = ctx
    /\ pc' = "loop"
    /\ outcome' = outcome
    /\ hist' = [hist EXCEPT !.last = Some(item), !.current = Some(item), !.executed = @ + 1]

\* number of candidates waiting for the vote of a step
PendingCount(pending, step_id) ==
    IF step_id \in DOMAIN pending THEN Len(pending[step_id]) ELSE 0

AgentOf(kind) == agent_configs(options, domain_cfg)[kind]

\* WorkItem::Decomposition arm
RunDecomposition ==
    /\ AtItem("Decomposition")
    /\ \E render \in BOOLEAN, llm \in SeqsUpTo(DecompositionSamples, MaxScript) :
       \E completion \in CompletionOrders(domain_cfg.pipeline_empty,
                                          AgentOf("Decomposition").samples, llm) :
       \E current_item \in {HeadItem}, c0 \in {dequeue_work(context)} :
       \E step_id \in {current_item.step_id} :
       \E step_prompt \in {IF HasStep(c0, step_id) THEN step(c0, step_id).description
                           ELSE c0.prompt} :
       \E result \in {DecompositionTaskRun(c0, step_id, step_prompt, AgentOf("Decomposition"),
                                           domain_cfg.pipeline_empty,
                                           [render |-> render, llm |-> llm,
                                            completion |-> completion])} :
       \E wait \in {check_sampling_triggers(options, result.ctx, step_id,
                                            "decomposition sampling")},
          asked \in {handle_next_action(result.action, current_item, result.ctx)} :
         IF ~result.ok THEN Return(result.ctx, Failure, current_item)
         ELSE IF IsSome(asked)
         THEN Return(Unwrap(asked), Paused(Unwrap(asked)), current_item)
         ELSE IF IsSome(wait)
              THEN \E paused \in {pause_with(result.ctx, Unwrap(wait), current_item)} :
                      Return(paused, Paused(paused), current_item)
              ELSE Continue(enqueue_work_front(result.ctx,
                                WorkItem("DecompositionVote", step_id)), current_item)
    /\ UNCHANGED <<options, domain_cfg, caller, store, tally>>

\* WorkItem::DecompositionVote arm
RunDecompositionVote ==
    /\ AtItem("DecompositionVote")
    /\ \E render \in BOOLEAN, llm \in SeqsUpTo(VoteResponses, MaxVoters),
          order \in Perms(0..(PendingCount(context.pending_decompositions,
                                           HeadItem.step_id) - 1)) :
       \E current_item \in {HeadItem}, c0 \in {dequeue_work(context)},
          agent \in {AgentOf("DecompositionDiscriminator")} :
       \E step_id \in {current_item.step_id},
          vote_k \in {resolve_k(options, "DecompositionDiscriminator", agent, c0)} :
       \E result \in {DecompositionVoteTaskRun(c0, step_id, agent, vote_k,
                          [render |-> render, llm |-> llm, order |-> order])} :
       \E wait \in {check_vote_triggers(options, result.ctx, step_id, "decomposition vote")},
          asked \in {handle_next_action(result.action, current_item, result.ctx)} :
         IF ~result.ok THEN Return(result.ctx, Failure, current_item)
         ELSE IF IsSome(asked)
         THEN Return(Unwrap(asked), Paused(Unwrap(asked)), current_item)
         ELSE IF IsSome(wait)
              THEN \E paused \in {pause_with(result.ctx, Unwrap(wait),
                                             WorkItem("Decomposition", step_id))} :
                      Return(paused, Paused(paused), current_item)
              ELSE \E children \in {result.effect.steps} :
                   \E routed \in {IF children = <<>>
                                  THEN enqueue_work(result.ctx, WorkItem("Solve", step_id))
                                  ELSE EnqueueChildren(options, result.ctx, children)} :
                      IF options.step_by_step
                      THEN \E paused \in {set_checkpoint(routed, step_id,
                                                         <<"step_by_step_checkpoint">>)} :
                              Return(paused, Paused(paused), current_item)
                      ELSE Continue(routed, current_item)
    /\ UNCHANGED <<options, domain_cfg, caller, store, tally>>

\* WorkItem::Solve arm
RunSolve ==
    /\ AtItem("Solve")
    /\ \E render \in BOOLEAN, llm \in SeqsUpTo(SolveSamples(AgentOf("Solver").samples), MaxScript) :
       \E completion \in CompletionOrders(domain_cfg.pipeline_empty,
                                          AgentOf("Solver").samples, llm) :
       \E current_item \in {HeadItem}, c0 \in {dequeue_work(context)} :
       \E step_id \in {current_item.step_id} :
       \E result \in {SolveTaskRun(c0, step_id, AgentOf("Solver"), domain_cfg.pipeline_empty,
                                   [render |-> render, llm |-> llm,
                                    completion |-> completion])} :
       \E wait \in {check_sampling_triggers(options, result.ctx, step_id, "solver sampling")},
          asked \in {handle_next_action(result.action, current_item, result.ctx)} :
         IF ~result.ok THEN Return(result.ctx, Failure, current_item)
         ELSE IF IsSome(asked)
         THEN Return(Unwrap(asked), Paused(Unwrap(asked)), current_item)
         ELSE IF IsSome(wait)
              THEN \E paused \in {pause_with(result.ctx, Unwrap(wait), current_item)} :
                      Return(paused, Paused(paused), current_item)
              ELSE Continue(enqueue_work_front(result.ctx,
                                WorkItem("SolutionVote", step_id)), current_item)
    /\ UNCHANGED <<options, domain_cfg, caller, store, tally>>

\* WorkItem::SolutionVote arm
RunSolutionVote ==
    /\ AtItem("SolutionVote")
    /\ \E render \in BOOLEAN, llm \in SeqsUpTo(VoteResponses, MaxVoters),
          order \in Perms(0..(PendingCount(context.pending_solutions,
                                           HeadItem.step_id) - 1)) :
       \E current_item \in {HeadItem}, c0 \in {dequeue_work(context)},
          agent \in {AgentOf("SolutionDiscriminator")} :
       \E step_id \in {current_item.step_id},
          vote_k \in {resolve_k(options, "SolutionDiscriminator", agent, c0)} :
       \E result \in {SolutionVoteTaskRun(c0, step_id, agent, vote_k,
                          [render |-> render, llm |-> llm, order |-> order])} :
       \E wait \in {check_vote_triggers(options, result.ctx, step_id, "solution vote")},
          asked \in {handle_next_action(result.action, current_item, result.ctx)} :
         IF ~result.ok THEN Return(result.ctx, Failure, current_item)
         ELSE IF IsSome(asked)
         THEN Return(Unwrap(asked), Paused(Unwrap(asked)), current_item)
         ELSE IF IsSome(wait)
              THEN \E paused \in {pause_with(result.ctx, Unwrap(wait),
                                             WorkItem("Solve", step_id))} :
                      Return(paused, Paused(paused), current_item)
              ELSE Continue(enqueue_work_front(result.ctx,
                                WorkItem("ApplyVerify", step_id)), current_item)
    /\ UNCHANGED <<options, domain_cfg, caller, store, tally>>

\* WorkItem::ApplyVerify arm
RunApplyVerify ==
    /\ AtItem("ApplyVerify")
    /\ \E applied \in BOOLEAN, verified \in BOOLEAN :
       \E current_item \in {HeadItem}, c0 \in {dequeue_work(context)} :
       \E step_id \in {current_item.step_id} :
       \E result \in {ApplyVerifyTaskRun(c0, step_id, domain_cfg.applier, domain_cfg.verifier,
                                         [applied |-> applied, verified |-> verified])} :
       \E asked \in {handle_next_action(result.action, current_item, result.ctx)} :
         IF ~result.ok THEN Return(result.ctx, Failure, current_item)
         ELSE IF IsSome(asked)
         THEN Return(Unwrap(asked), Paused(Unwrap(asked)), current_item)
         ELSE IF result.effect.kind = "StepCompleted" /\ HasStep(result.ctx, step_id)
                 /\ options.step_by_step
              THEN \E paused \in {set_checkpoint(result.ctx, step_id,
                                                 <<"step_by_step_checkpoint">>)} :
                      Return(paused, Paused(paused), current_item)
              ELSE Continue(result.ctx, current_item)
    /\ UNCHANGED <<options, domain_cfg, caller, store, tally>>

\* the work queue is empty: execute returns Completed
RunnerComplete ==
    /\ pc = "loop"
    /\ ~has_pending_work(context)
    /\ pc' = "returned"
    /\ outcome' = Completed
    /\ UNCHANGED <<context, options, domain_cfg, caller, hist, store, tally>>

\* the options a command line can ask for
CliOptions ==
    {from_cli(2, 2, FALSE, sbs, low_margin) : sbs \in BOOLEAN, low_margin \in {0, 1}}

\* options built by hand, as the tests of runner.rs build them: a trigger
\* threshold of 1, both sampling thresholds of 1, or every trigger off, and a
\* decomposition depth of 1 or 2
DirectOptions ==
    {RunnerOptions(2, 2, FALSE, depth, 8, t[1], t[2], t[3], sbs) :
        depth \in {1, 2},
        t \in {<<1, 0, 0>>, <<0, 1, 0>>, <<1, 1, 0>>, <<0, 0, 1>>, <<0, 0, 0>>},
        sbs \in BOOLEAN}

OptionChoices == CliOptions \cup DirectOptions

(***************************************************************************)
(* Session use cases (src/src/application/service.rs) and the session      *)
(* store (src/src/adapters/outbound/persistence.rs)                        *)
(***************************************************************************)
SessionMetadata(samples, k, adaptive_k, human_low_margin_threshold) ==
    [samples |-> samples, k |-> k, adaptive_k |-> adaptive_k,
     human_low_margin_threshold |-> human_low_margin_threshold]

SessionEnvelope(ctx, metadata) == [context |-> ctx, metadata |-> metadata]

\* SessionStore::save: the record of the session is replaced
save(envelope, status) == Some([envelope |-> envelope, status |-> status])

\* the status saved for the result of execute
StatusOf(out) ==
    IF out.kind = "Completed" THEN "completed"
    ELSE IF out.kind = "Paused" THEN "paused" ELSE "failed"

\* the envelope saved as it was before execute
StaleEnvelope(envelope, ctx) == envelope

\* the envelope saved after execute: envelope.context = context
FinalEnvelope(envelope, ctx) == [envelope EXCEPT !.context = ctx]

\* what a caller resumes from: the wait state it clears, the work queue and
\* the candidate solutions the step named by the wait state holds at that
\* moment
ResumedFrom(ctx, wait) ==
    IF IsSome(wait)
    THEN Some([wait |-> Unwrap(wait), queue |-> ctx.work_queue,
               candidates |-> IF HasStep(ctx, Unwrap(wait).step_id)
                              THEN step(ctx, Unwrap(wait).step_id).candidate_solutions
                              ELSE <<>>])
    ELSE None

NoHist == [last |-> None, current |-> None, executed |-> 0, prev_status |-> "none",
           resumed |-> None, budget |-> MaxItems]

\* run_session up to the call of runner.execute
RunSession ==
    /\ pc = "idle"
    /\ caller = "none"
    /\ options \in CliOptions
    /\ LET ctx == [ContextNew(context.prompt) EXCEPT !.dry_run = context.dry_run]
           metadata == SessionMetadata(options.default_samples, options.default_k,
                                       options.adaptive_k, options.human_low_margin_threshold)
       IN /\ store' = save(SessionEnvelope(ctx, metadata), "running")
          /\ options' = from_cli(options.default_samples, options.default_k,
                                 options.adaptive_k, options.step_by_step,
                                 options.human_low_margin_threshold)
          /\ context' = ExecuteEntry(ctx)
    /\ pc' = "loop"
    /\ caller' = "run"
    /\ hist' = [NoHist EXCEPT !.budget = hist.budget]
    /\ UNCHANGED <<domain_cfg, outcome, tally>>

\* resume_session up to the call of runner.execute, for a request without
\* overrides
ResumeSession ==
    /\ pc = "idle"
    /\ caller \in {"run", "resume"}
    /\ IsSome(store)
    /\ hist.executed < hist.budget
    /\ \E request \in [human_low_margin_threshold : {None}] :
         LET record == Unwrap(store)
             prev_metadata == record.envelope.metadata
             threshold == IF IsSome(request.human_low_margin_threshold)
                          THEN Unwrap(request.human_low_margin_threshold)
                          ELSE prev_metadata.human_low_margin_threshold
             ctx == clear_wait_state(record.envelope.context)
             metadata == SessionMetadata(prev_metadata.samples, prev_metadata.k,
                                         prev_metadata.adaptive_k, threshold)
         IN /\ options' = from_cli(prev_metadata.samples, prev_metadata.k,
                                   prev_metadata.adaptive_k, FALSE, threshold)
            /\ store' = save(SessionEnvelope(ctx, metadata), "running")
            /\ context' = ExecuteEntry(ctx)
            /\ hist' = [hist EXCEPT !.last = None, !.current = None,
                                    !.prev_status = record.status,
                                    !.resumed = ResumedFrom(record.envelope.context,
                                                    record.envelope.context.wait_state)]
    /\ pc' = "loop"
    /\ caller' = "resume"
    /\ UNCHANGED <<domain_cfg, outcome, tally>>

\* run_session / resume_session after runner.execute returned
ServiceReturn ==
    /\ pc = "returned"
    /\ caller \in {"run", "resume"}
    /\ store' = save(FinalEnvelope(Unwrap(store).envelope, context), StatusOf(outcome))
    /\ pc' = "idle"
    /\ UNCHANGED <<context, options, domain_cfg, outcome, caller, hist, tally>>

\* run_subprocess up to the call of runner.execute: a fresh context whose
\* queue is replaced by the Solve and the SolutionVote of the root
RunSubprocess ==
    /\ pc = "idle"
    /\ caller = "none"
    /\ options \in CliOptions
    /\ \E c0 \in {[ContextNew(context.prompt) EXCEPT !.dry_run = context.dry_run]} :
       \E root_id \in {Unwrap(ensure_root(c0).root_step_id)} :
         context' = ExecuteEntry(
                        enqueue_work(
                            enqueue_work([ensure_root(c0) EXCEPT !.work_queue = <<>>],
                                         WorkItem("Solve", root_id)),
                            WorkItem("SolutionVote", root_id)))
    /\ options' = from_cli(options.default_samples, options.default_k, FALSE, FALSE, 1)
    /\ pc' = "loop"
    /\ caller' = "subprocess"
    /\ hist' = [NoHist EXCEPT !.budget = hist.budget]
    /\ UNCHANGED <<domain_cfg, outcome, store, tally>>

\* run_subprocess after runner.execute returned: the SubprocessOutcome of a
\* Completed run, an error for a paused or failed one
SubprocessReturn ==
    /\ pc = "returned"
    /\ caller = "subprocess"
    /\ \E root_id \in {Unwrap(context.root_step_id)} :
         tally' = IF outcome.kind = "Completed" /\ HasStep(context, root_id)
                  THEN [phase |-> "subprocess", ok |-> TRUE, step_id |-> root_id,
                        candidate_solutions |-> step(context, root_id).candidate_solutions,
                        winning_solution |-> step(context, root_id).winning_solution]
                  ELSE [phase |-> "subprocess", ok |-> FALSE, step_id |-> root_id,
                        candidate_solutions |-> <<>>, winning_solution |-> None]
    /\ pc' = "idle"
    /\ UNCHANGED <<context, options, domain_cfg, outcome, caller, hist, store>>

(***************************************************************************)
(* A caller that owns the runner and the context itself, as the tests of   *)
(* runner.rs and integration-tests/tests/resume_flow.rs do                 *)
(***************************************************************************)
Execute ==
    /\ pc = "idle"
    /\ caller \in {"none", "direct"}
    /\ options \notin CliOptions
    /\ ~IsSome(context.wait_state)
    /\ outcome.kind # "Err"
    /\ hist.executed < hist.budget
    /\ context' = ExecuteEntry(context)
    /\ pc' = "loop"
    /\ caller' = "direct"
    /\ hist' = [hist EXCEPT !.last = None, !.current = None,
                            !.resumed = ResumedFrom(context, outcome.wait)]
    /\ UNCHANGED <<options, domain_cfg, outcome, store, tally>>

ClearWaitState ==
    /\ pc = "idle"
    /\ caller = "direct"
    /\ IsSome(context.wait_state)
    /\ context' = clear_wait_state(context)
    /\ UNCHANGED <<options, domain_cfg, pc, outcome, caller, hist, store, tally>>

DirectReturn ==
    /\ pc = "returned"
    /\ caller = "direct"
    /\ pc' = "idle"
    /\ UNCHANGED <<context, options, domain_cfg, outcome, caller, hist, store, tally>>

(***************************************************************************)
(* Specification of the runner and the session use cases                   *)
(***************************************************************************)
AgentKinds == {"Decomposition", "DecompositionDiscriminator", "Solver", "SolutionDiscriminator"}

DomainChoices ==
    [agents : {[kind \in AgentKinds |->
                   [samples |-> IF kind \in {"Decomposition", "Solver"} THEN Some(1) ELSE None,
                    k |-> None]]},
     pipeline_empty : BOOLEAN, applier : {"overwrite_file"}, verifier : {TRUE}]

NoTally == [phase |-> "off"]

Init ==
    /\ options \in OptionChoices
    /\ domain_cfg \in DomainChoices
    /\ \E dry_run \in BOOLEAN : context = [ContextNew(8) EXCEPT !.dry_run = dry_run]
    /\ pc = "idle"
    /\ outcome = NoOutcome
    /\ caller = "none"
    /\ hist = NoHist
    /\ store = None
    /\ tally = NoTally

Next ==
    \/ RunSession
    \/ ResumeSession
    \/ ServiceReturn
    \/ RunSubprocess
    \/ SubprocessReturn
    \/ Execute
    \/ ClearWaitState
    \/ DirectReturn
    \/ RunDecomposition
    \/ RunDecompositionVote
    \/ RunSolve
    \/ RunSolutionVote
    \/ RunApplyVerify
    \/ RunnerComplete

Spec == Init /\ [][Next]_vars

(***************************************************************************)
(* Specification of the vote tally: first_to_ahead_by_k, then, as the vote *)
(* tasks do, majority_vote when it gives no decision                       *)
(***************************************************************************)
(***************************************************************************)
(* Specification of the flows of integration-tests/tests/resume_flow.rs    *)
(* and of pauses_at_checkpoints_when_step_by_step_enabled in runner.rs: a  *)
(* caller that owns the runner, with the options, the domain and the       *)
(* prompt those tests build                                                *)
(***************************************************************************)
\* work items executed in one session of these flows
MaxResumeItems == 7

\* usize::MAX, as the largest integer the checker holds
UsizeMax == 2147483647

ResumeFlowOptions ==
    {RunnerOptions(2, 2, FALSE, 1, UsizeMax, UsizeMax, UsizeMax, 1, FALSE)}

ResumeFlowDomain ==
    [agents |-> [kind \in AgentKinds |->
                    [samples |-> IF kind = "Decomposition" THEN Some(1) ELSE Some(2),
                     k |-> IF kind = "DecompositionDiscriminator" THEN Some(1)
                           ELSE IF kind = "SolutionDiscriminator" THEN Some(2) ELSE None]],
     pipeline_empty |-> TRUE, applier |-> "none", verifier |-> FALSE]

\* step_by_step with the low-margin threshold 0 the test sets, or the 1 of
\* RunnerOptions::default
StepCheckOptions ==
    {RunnerOptions(1, 1, FALSE, 2, 8, 4, 4, low_margin, TRUE) : low_margin \in {0, 1}}

StepCheckDomain ==
    [agents |-> [kind \in AgentKinds |-> [samples |-> None, k |-> None]],
     pipeline_empty |-> TRUE, applier |-> "patch_file", verifier |-> FALSE]

\* human_red_flag_threshold 1 over RunnerOptions::default
StrictCheckOptions == {RunnerOptions(2, 2, FALSE, 2, 8, 1, 4, 1, FALSE)}

\* one decomposition sample, the solver's samples left to the options, red
\* flaggers for every agent
StrictCheckDomain ==
    [agents |-> [kind \in AgentKinds |->
                    [samples |-> IF kind = "Decomposition" THEN Some(1) ELSE None,
                     k |-> None]],
     pipeline_empty |-> FALSE, applier |-> "none", verifier |-> FALSE]

\* "Patch flaky test", "Test Stepping" and "Check"
TestFlows ==
    {[options |-> o, domain |-> ResumeFlowDomain, prompt |-> 3] : o \in ResumeFlowOptions}
        \cup {[options |-> o, domain |-> StepCheckDomain, prompt |-> 2] : o \in StepCheckOptions}
        \cup {[options |-> o, domain |-> StrictCheckDomain, prompt |-> 1] :
                 o \in StrictCheckOptions}

InitResume ==
    /\ \E flow \in TestFlows, dry_run \in BOOLEAN :
         /\ options = flow.options
         /\ domain_cfg = flow.domain
         /\ context = [ContextNew(flow.prompt) EXCEPT !.dry_run = dry_run]
    /\ pc = "idle"
    /\ outcome = NoOutcome
    /\ caller = "none"
    /\ hist = [NoHist EXCEPT !.budget = MaxResumeItems]
    /\ store = None
    /\ tally = NoTally

NextResume ==
    \/ Execute
    \/ ClearWaitState
    \/ DirectReturn
    \/ RunDecomposition
    \/ RunDecompositionVote
    \/ RunSolve
    \/ RunSolutionVote
    \/ RunApplyVerify
    \/ RunnerComplete

SpecResume == InitResume /\ [][NextResume]_vars

Untouched ==
    /\ context = ContextDefault
    /\ options = from_cli(1, 1, FALSE, FALSE, 0)
    /\ domain_cfg = [agents |-> EmptyMap, pipeline_empty |-> TRUE,
                     applier |-> "none", verifier |-> FALSE]
    /\ pc = "idle"
    /\ outcome = NoOutcome
    /\ caller = "none"
    /\ hist = NoHist
    /\ store = None

InitVote ==
    /\ Untouched
    /\ \E votes \in SeqsUpTo(0..(MaxCand - 1), MaxVotes), k \in 1..MaxK :
         tally = [phase |-> "input", votes |-> votes, k |-> k, order |-> <<>>,
                  ahead |-> None, majority |-> None, winner_idx |-> 0,
                  kind |-> "none", ctx |-> ContextNew(1)]

TallyAhead ==
    /\ tally.phase = "input"
    /\ \E order \in Perms(0..(MaxCand - 1)) :
         tally' = [tally EXCEPT !.phase = "ahead", !.order = order,
                                !.ahead = first_to_ahead_by_k(tally.votes, tally.k, order)]
    /\ UNCHANGED <<context, options, domain_cfg, pc, outcome, caller, hist, store>>

TallyMajority ==
    /\ tally.phase = "ahead"
    /\ ~IsSome(tally.ahead)
    /\ tally' = [tally EXCEPT !.phase = "majority", !.majority = majority_vote(tally.votes)]
    /\ UNCHANGED <<context, options, domain_cfg, pc, outcome, caller, hist, store>>

\* the end of a vote task: the winner is selected among MaxCand candidates,
\* its votes and the runner-up's are counted and the margin is recorded
TallyRecord ==
    /\ tally.phase \in {"ahead", "majority"}
    /\ tally.phase = "ahead" => IsSome(tally.ahead)
    /\ \E kind \in {"DecompositionDiscriminator", "SolutionDiscriminator"} :
       \E winner_idx \in {select_winner(tally.votes, tally.k, tally.order, MaxCand)} :
       \E counts \in {vote_counts(tally.votes, MaxCand, winner_idx)} :
         tally' = [tally EXCEPT !.phase = "recorded", !.winner_idx = winner_idx,
                                !.kind = kind,
                                !.ctx = record_vote(tally.ctx, 0, kind, counts[1], counts[2])]
    /\ UNCHANGED <<context, options, domain_cfg, pc, outcome, caller, hist, store>>

NextVote ==
    \/ TallyAhead
    \/ TallyMajority
    \/ TallyRecord

SpecVote == InitVote /\ [][NextVote]_vars

(***************************************************************************)
(* Specification of the sample collector with a non-empty pipeline         *)
(***************************************************************************)
CollectorSamples == {Sample(1, 0), Sample(2, 0), Sample(3, 1)}

InitCollect ==
    /\ Untouched
    /\ \E target \in 0..MaxTarget, llm \in SeqsUpTo(CollectorSamples, MaxResponses) :
         tally = [phase |-> "input", target |-> target, script |-> llm, llm |-> llm,
                  ok |-> FALSE, samples |-> <<>>, calls |-> 0,
                  metrics |-> StepMetricsDefault, ctx |-> ContextNew(1),
                  st |-> [accepted |-> <<>>, attempts |-> 0], arrived |-> <<>>,
                  drawn |-> 0]

\* one pass of the loop of collect_inner over a non-empty pipeline: the batch
\* is drawn, its evaluations complete in some order, the samples that passed
\* are pushed in that order
Collect ==
    /\ tally.phase = "input"
    /\ \E perm \in Perms(1..Max2(0, Min2(tally.target - Len(tally.st.accepted),
                                         Len(tally.llm)))) :
       \E got \in {IF Len(tally.st.accepted) >= tally.target
                   THEN CollectDone(tally.ctx, tally.st.accepted, tally.st.attempts)
                   ELSE CollectIteration(tally.ctx, 0, tally.target, tally.llm,
                                         tally.st, perm)} :
         tally' = [tally EXCEPT !.phase = IF got.done THEN "collected" ELSE "input",
                                !.ok = got.ok, !.samples = got.samples,
                                !.calls = got.calls, !.llm = got.llm,
                                !.ctx = got.ctx, !.st = got.st,
                                !.arrived = IF got.ok THEN tally.arrived \o <<perm>>
                                            ELSE tally.arrived,
                                !.drawn = IF got.ok THEN tally.drawn + Len(perm)
                                          ELSE tally.drawn,
                                !.metrics = step_metrics_mut(got.ctx, 0).metrics.per_step[0]]
    /\ UNCHANGED <<context, options, domain_cfg, pc, outcome, caller, hist, store>>

NextCollect == Collect

SpecCollect == InitCollect /\ [][NextCollect]_vars

(***************************************************************************)
(* The session store: table sessions of sessions.sqlite3                   *)
(***************************************************************************)
\* the largest step id of a stored context
MaxStepId == 1

SessionIds == {"a", "b"}

\* timestamp(), seconds of the system clock
Clock == {0, 1}

SessionStatuses == {"Running", "Paused", "Completed", "Failed"}

\* SessionStatus::as_str
as_str(status) ==
    CASE status = "Running" -> "running"
      [] status = "Paused" -> "paused"
      [] status = "Completed" -> "completed"
      [] status = "Failed" -> "failed"

\* SessionStatus::from_str
from_str(value) ==
    CASE value = "running" -> Some("Running")
      [] value = "paused" -> Some("Paused")
      [] value = "completed" -> Some("Completed")
      [] value = "failed" -> Some("Failed")
      [] OTHER -> None

\* serde_json of an Option: null or the value
JsonOfOption(o) == IF IsSome(o) THEN <<"value", Unwrap(o)>> ELSE <<"null">>

OptionOfJson(j) == IF j = <<"null">> THEN None ELSE Some(j[2])

\* str::parse::<usize> of an object key
ParseUsize(key) == CHOOSE n \in 0..MaxStepId : ToString(n) = key

\* serde_json of a HashMap<usize, _>: an object whose keys are the decimal
\* strings of the keys of the map
JsonOfMap(m) == [key \in {ToString(n) : n \in DOMAIN m} |-> m[ParseUsize(key)]]

MapOfJson(o) == [n \in {ParseUsize(key) : key \in DOMAIN o} |-> o[ToString(n)]]

JsonOfStep(s) ==
    [s EXCEPT !.parent = JsonOfOption(@), !.winning_solution = JsonOfOption(@)]

StepOfJson(j) ==
    [j EXCEPT !.parent = OptionOfJson(@), !.winning_solution = OptionOfJson(@)]

JsonOfStepMetrics(m) ==
    [m EXCEPT !.vote_margin = JsonOfOption(@), !.verification_passed = JsonOfOption(@)]

StepMetricsOfJson(j) ==
    [j EXCEPT !.vote_margin = OptionOfJson(@), !.verification_passed = OptionOfJson(@)]

\* serde_json::to_string(&envelope.context)
context_to_json(ctx) ==
    [ctx EXCEPT !.steps = [i \in 1..Len(ctx.steps) |-> JsonOfStep(ctx.steps[i])],
                !.metrics.per_step =
                    JsonOfMap([n \in DOMAIN ctx.metrics.per_step |->
                                  JsonOfStepMetrics(ctx.metrics.per_step[n])]),
                !.root_step_id = JsonOfOption(@),
                !.pending_decompositions = JsonOfMap(@),
                !.pending_solutions = JsonOfMap(@),
                !.wait_state = JsonOfOption(@)]

\* serde_json::from_str::<Context>(&row.1)
context_from_json(json) ==
    [json EXCEPT !.steps = [i \in 1..Len(json.steps) |-> StepOfJson(json.steps[i])],
                 !.metrics.per_step =
                     [n \in DOMAIN MapOfJson(json.metrics.per_step) |->
                         StepMetricsOfJson(MapOfJson(json.metrics.per_step)[n])],
                 !.root_step_id = OptionOfJson(@),
                 !.pending_decompositions = MapOfJson(@),
                 !.pending_solutions = MapOfJson(@),
                 !.wait_state = OptionOfJson(@)]

\* the row the INSERT of SessionStore::save binds
SessionRow(envelope, status, now) ==
    [session_id |-> envelope.context.session_id, prompt |-> envelope.context.prompt,
     status |-> as_str(status), context_json |-> context_to_json(envelope.context),
     metadata_json |-> envelope.metadata, updated_at |-> now]

\* INSERT OR IGNORE: the row of a session already stored is kept
InsertOrIgnore(rows, row) ==
    IF \E r \in rows : r.session_id = row.session_id THEN rows ELSE rows \cup {row}

\* INSERT .. ON CONFLICT(session_id) DO UPDATE SET ..
upsert(rows, row) == {r \in rows : r.session_id # row.session_id} \cup {row}

\* SessionStore::load; ok is FALSE for "Session not found" and for a status
\* from_str does not know
load(rows, session_id) ==
    IF \E r \in rows : r.session_id = session_id
    THEN CHOOSE record \in
           {IF IsSome(from_str(r.status))
            THEN [ok |-> TRUE,
                  envelope |-> SessionEnvelope(context_from_json(r.context_json),
                                               r.metadata_json),
                  status |-> Unwrap(from_str(r.status)), updated_at |-> r.updated_at]
            ELSE [ok |-> FALSE] : r \in {r \in rows : r.session_id = session_id}} : TRUE
    ELSE [ok |-> FALSE]

\* Context::new with the session id the service gives it
StoredNew(prompt, session_id) == [session_id |-> session_id] @@ ContextNew(prompt)

\* a context with candidates registered and metrics recorded for step 0
StoredSolved(prompt, session_id) ==
    record_samples(register_solutions(StoredNew(prompt, session_id), 0, <<1, 2>>), 0, 2, 2)

\* the contexts saved: a new one, and one with candidates and metrics, paused
StoredContexts(session_id) ==
    {StoredNew(1, session_id),
     pause_with(StoredSolved(2, session_id), WaitState(0, <<"solution vote", "low_margin">>),
                WorkItem("Solve", 0))}

StoredEnvelopes(session_id) ==
    {SessionEnvelope(ctx, SessionMetadata(2, 2, FALSE, 1)) : ctx \in StoredContexts(session_id)}

InitStore ==
    /\ Untouched
    /\ tally = [phase |-> "store", rows |-> {},
                saved |-> [id \in SessionIds |-> None],
                op |-> [kind |-> "none"]]

\* SessionStore::save and SessionRepository::save_session: one statement
StoreSave ==
    /\ tally.phase = "store"
    /\ \E id \in SessionIds, status \in SessionStatuses, now \in Clock :
       \E envelope \in StoredEnvelopes(id) :
         tally' = [tally EXCEPT
                     !.rows = upsert(tally.rows, SessionRow(envelope, status, now)),
                     !.saved[id] = Some([envelope |-> envelope, status |-> status]),
                     !.op = [kind |-> "save", session_id |-> id, envelope |-> envelope,
                             status |-> status, before |-> tally.rows]]
    /\ UNCHANGED <<context, options, domain_cfg, pc, outcome, caller, hist, store>>

\* SessionStore::load
StoreLoad ==
    /\ tally.phase = "store"
    /\ \E id \in SessionIds :
         tally' = [tally EXCEPT
                     !.op = [kind |-> "load", session_id |-> id,
                             record |-> load(tally.rows, id)]]
    /\ UNCHANGED <<context, options, domain_cfg, pc, outcome, caller, hist, store>>

NextStore == StoreSave \/ StoreLoad

SpecStore == InitStore /\ [][NextStore]_vars

(***************************************************************************)
(* The model client: RigLlmClient and its semaphore                        *)
(***************************************************************************)
\* the largest max_concurrent_llm a client is created with
MaxConcurrent == 2

\* the calls made on one client
MaxCalls == 3

Calls == 1..MaxCalls

\* a call of sample, spawned by sample_n, or of chat_completion, made by a
\* red-flag critique
CallKinds == {"sample", "chat_completion"}

\* a permit withheld when the call failed
ReleaseOnSuccess(permits, ok) == IF ok THEN permits + 1 ELSE permits

\* drop(permit) in sample, the end of the scope of _permit in
\* chat_completion: the permit goes back whatever prompt_once returned
release(permits, ok) == permits + 1

\* RigLlmClient::new: Semaphore::new(max(1, max_concurrent))
InitLlm ==
    /\ Untouched
    /\ \E max_concurrent \in 0..MaxConcurrent :
         tally = [phase |-> "llm", limit |-> Max2(1, max_concurrent),
                  permits |-> Max2(1, max_concurrent), queue |-> <<>>,
                  calls |-> [c \in Calls |-> [kind |-> "none", state |-> "idle",
                                              blocked |-> FALSE]]]

\* sample or chat_completion entered: acquire_owned() joins the waiters of
\* the semaphore
StartCall(c) ==
    /\ tally.phase = "llm"
    /\ tally.calls[c].state = "idle"
    /\ \E kind \in CallKinds :
         tally' = [tally EXCEPT
                     !.queue = Append(@, c),
                     !.calls[c] = [kind |-> kind, state |-> "waiting",
                                   blocked |-> tally.permits = 0 \/ tally.queue # <<>>]]
    /\ UNCHANGED <<context, options, domain_cfg, pc, outcome, caller, hist, store>>

\* acquire_owned().await returns for the first waiter when a permit is free
AcquirePermit ==
    /\ tally.phase = "llm"
    /\ tally.queue # <<>>
    /\ tally.permits > 0
    /\ tally' = [tally EXCEPT !.queue = Tail(@), !.permits = @ - 1,
                              !.calls[Head(tally.queue)].state = "running"]
    /\ UNCHANGED <<context, options, domain_cfg, pc, outcome, caller, hist, store>>

\* prompt_once returned, Ok or Err, and the permit is dropped
FinishCall(c) ==
    /\ tally.phase = "llm"
    /\ tally.calls[c].state = "running"
    /\ \E ok \in BOOLEAN :
         tally' = [tally EXCEPT !.permits = release(@, ok),
                                !.calls[c].state = IF ok THEN "ok" ELSE "err"]
    /\ UNCHANGED <<context, options, domain_cfg, pc, outcome, caller, hist, store>>

\* sample_n returns on the first failed sample and drops its JoinSet: the
\* tasks left are aborted, a waiter leaves the queue, a holder drops its permit
AbortSample(c) ==
    /\ tally.phase = "llm"
    /\ tally.calls[c].kind = "sample"
    /\ tally.calls[c].state \in {"waiting", "running"}
    /\ \E d \in Calls : tally.calls[d].kind = "sample" /\ tally.calls[d].state = "err"
    /\ tally' = [tally EXCEPT
                    !.queue = SelectSeq(@, LAMBDA w : w # c),
                    !.permits = IF tally.calls[c].state = "running" THEN @ + 1 ELSE @,
                    !.calls[c].state = "aborted"]
    /\ UNCHANGED <<context, options, domain_cfg, pc, outcome, caller, hist, store>>

NextLlm ==
    \/ \E c \in Calls : StartCall(c)
    \/ AcquirePermit
    \/ \E c \in Calls : FinishCall(c)
    \/ \E c \in Calls : AbortSample(c)

\* the semaphore serves its waiters and every request to the provider ends
SpecLlm ==
    /\ InitLlm
    /\ [][NextLlm]_vars
    /\ WF_vars(AcquirePermit)
    /\ \A c \in Calls : WF_vars(FinishCall(c))

(***************************************************************************)
(* The overwrite_file applier of ApplyVerifyTask                           *)
(***************************************************************************)
\* the length of a raw target path, in tokens
MaxPath == 3

\* a raw path is a string made of these pieces: the separator, the parent
\* directory, the repository directory and an ordinary name
PathTokens == {"/", "..", ".git", "src"}

RawPaths == SeqsUpTo(PathTokens, MaxPath) \ {<<>>}

\* the paths of validation_rejects_unsafe_paths: /etc/passwd, ../outside,
\* src/../../oops, .git/config, src/.git/info, src/main.rs, README.md,
\* nested/deep/file.rs
TestPaths ==
    {<<"/", "src", "/", "src">>, <<"..", "/", "src">>,
     <<"src", "/", "..", "/", "..", "/", "src">>, <<".git", "/", "src">>,
     <<"src", "/", ".git", "/", "src">>, <<"src", "/", "src">>, <<"src">>,
     <<"src", "/", "src", "/", "src">>}

\* Path::is_absolute
is_absolute(raw) == raw # <<>> /\ Head(raw) = "/"

\* Path::components without the root: the runs of pieces between separators,
\* run being the component read so far
RECURSIVE Runs(_, _)
Runs(raw, run) ==
    IF raw = <<>>
    THEN IF run = <<>> THEN <<>> ELSE <<run>>
    ELSE IF Head(raw) = "/"
         THEN (IF run = <<>> THEN <<>> ELSE <<run>>) \o Runs(Tail(raw), <<>>)
         ELSE Runs(Tail(raw), Append(run, Head(raw)))

components(raw) == Runs(raw, <<>>)

\* raw.contains("/.git/") || raw.starts_with(".git/") || raw == ".git"
RawNamesGit(raw) ==
    \/ \E i \in 1..(Len(raw) - 2) : raw[i] = "/" /\ raw[i + 1] = ".git" /\ raw[i + 2] = "/"
    \/ Len(raw) >= 2 /\ raw[1] = ".git" /\ raw[2] = "/"
    \/ raw = <<".git">>

\* a validation that looks at the raw string only
ValidateRawOnly(raw) == ~is_absolute(raw) /\ ~RawNamesGit(raw)

\* validate_target_path: TRUE for Ok(path)
validate_target_path(raw) ==
    /\ ~is_absolute(raw)
    /\ \A i \in 1..Len(components(raw)) :
          components(raw)[i] # <<"..">> /\ components(raw)[i] # <<".git">>
    /\ ~RawNamesGit(raw)

\* the loop over the file blocks of the solution, or the single target of
\* the legacy heuristic; fs[i]: std::fs::write of the i-th target succeeds
overwrite_files(files, fs) ==
    [success |-> files # <<>> /\ \A i \in 1..Len(files) : validate_target_path(files[i]) /\ fs[i],
     written |-> {files[i] : i \in {j \in 1..Len(files) : validate_target_path(files[j]) /\ fs[j]}}]

\* the step whose winning solution is applied
ApplyContext(dry_run) ==
    [mark_step_status(mark_step_solution(ContextNew(1), 0, 1), 0, "Running")
        EXCEPT !.dry_run = dry_run]

\* the targets of a solution: one or two file blocks, or none and then the
\* path the step description names, if it names one
ApplyTargets ==
    {<<a>> : a \in RawPaths}
        \cup {<<a, b>> : a \in RawPaths, b \in TestPaths}
        \cup {<<b, a>> : a \in RawPaths, b \in TestPaths}
        \cup {<<>>}

InitApply ==
    /\ Untouched
    /\ \E files \in ApplyTargets, dry_run \in BOOLEAN, blocks \in BOOLEAN :
         /\ Len(files) = 2 => blocks
         /\ files = <<>> => ~blocks
         /\ tally = [phase |-> "apply", files |-> files, blocks |-> blocks,
                     ctx |-> ApplyContext(dry_run), written |-> {}, fs |-> <<>>,
                     effect |-> "none", applied |-> FALSE, verifier |-> FALSE,
                     verified |-> FALSE]

\* ApplyVerifyTask::run with the applier overwrite_file, without a verifier
\* or with one that exits with status zero or not
ApplyOverwrite ==
    /\ tally.phase = "apply"
    /\ \E fs \in [1..Len(tally.files) -> BOOLEAN], verifier \in BOOLEAN,
          verified \in BOOLEAN :
       \E done \in {overwrite_files(tally.files, fs)} :
       \E result \in {ApplyVerifyTaskRun(tally.ctx, 0, "overwrite_file", verifier,
                                          [applied |-> done.success,
                                           verified |-> verified])} :
         /\ ~verifier => verified
         /\ tally' = [tally EXCEPT
                        !.phase = "applied",
                        !.written = IF tally.ctx.dry_run THEN {} ELSE done.written,
                        !.fs = IF tally.ctx.dry_run THEN <<>> ELSE fs,
                        !.effect = result.effect.kind,
                        !.applied = done.success,
                        !.verifier = verifier,
                        !.verified = verified,
                        !.ctx = result.ctx]
    /\ UNCHANGED <<context, options, domain_cfg, pc, outcome, caller, hist, store>>

NextApply == ApplyOverwrite

SpecApply == InitApply /\ [][NextApply]_vars

(***************************************************************************)
(* The vote history: record_vote called again and again, resolve_k         *)
(***************************************************************************)
\* the votes recorded in one context
MaxRecords == 9

Discriminators == {"DecompositionDiscriminator", "SolutionDiscriminator"}

\* the counts of a winner that is behind and of one that is four ahead
RecordedCounts == {<<1, 2>>, <<4, 0>>}

\* the votes recorded before a k is resolved
MaxResolveRecords == 3

NoRing ==
    [phase |-> "ring", ctx |-> ContextNew(1), records |-> 0, budget |-> MaxRecords,
     log |-> [kind \in Discriminators |-> <<>>], resolved |-> None]

InitRing ==
    /\ Untouched
    /\ tally = NoRing

InitResolve ==
    /\ Untouched
    /\ tally = [NoRing EXCEPT !.budget = MaxResolveRecords]

\* the end of a vote task: record_vote with the counts of the vote
RecordVote ==
    /\ tally.phase = "ring"
    /\ tally.records < tally.budget
    /\ \E kind \in Discriminators, counts \in RecordedCounts :
         tally' = [tally EXCEPT
                     !.ctx = record_vote(tally.ctx, 0, kind, counts[1], counts[2]),
                     !.records = @ + 1,
                     !.log[kind] = Append(@, Max2(1, counts[1] - counts[2])),
                     !.resolved = None]
    /\ UNCHANGED <<context, options, domain_cfg, pc, outcome, caller, hist, store>>

\* the runner resolves the k of a vote from the options, the agent and the
\* history
ResolveK ==
    /\ tally.phase = "ring"
    /\ \E adaptive_k \in BOOLEAN, default_k \in 1..MaxK, k \in {None, Some(0), Some(MaxK + 1)},
          kind \in Discriminators :
       \E opts \in {from_cli(1, default_k, adaptive_k, FALSE, 1)} :
         tally' = [tally EXCEPT
                     !.resolved = Some([kind |-> kind, adaptive_k |-> adaptive_k,
                                        default_k |-> default_k, k |-> k,
                                        vote_k |-> resolve_k(opts, kind,
                                                     [samples |-> 1, k |-> k], tally.ctx)])]
    /\ UNCHANGED <<context, options, domain_cfg, pc, outcome, caller, hist, store>>

NextRing == RecordVote

SpecRing == InitRing /\ [][NextRing]_vars

NextResolve == RecordVote \/ ResolveK

SpecResolve == InitResolve /\ [][NextResolve]_vars

(***************************************************************************)
(* The step tree: ensure_root and add_child_step called on a context       *)
(***************************************************************************)
\* the calls made on one context
MaxTreeOps == 4

NoTreeOp == [op |-> "none"]

\* Context::default with an empty or a three-word prompt, and Context::new
InitTree ==
    /\ Untouched
    /\ \E ctx \in {ContextDefault, [ContextDefault EXCEPT !.prompt = 3], ContextNew(3)} :
         tally = [phase |-> "tree", ctx |-> ctx, ops |-> 0,
                  last |-> NoTreeOp, prev |-> NoTreeOp]

EnsureRoot ==
    /\ tally.phase = "tree"
    /\ tally.ops < MaxTreeOps
    /\ \E after \in {ensure_root(tally.ctx)} :
         tally' = [tally EXCEPT
                     !.ctx = after, !.ops = @ + 1, !.prev = tally.last,
                     !.last = [op |-> "ensure_root", before |-> tally.ctx,
                               returned |-> Unwrap(after.root_step_id)]]
    /\ UNCHANGED <<context, options, domain_cfg, pc, outcome, caller, hist, store>>

\* add_child_step with the id of a step or with an id no step has
AddChildStep ==
    /\ tally.phase = "tree"
    /\ tally.ops < MaxTreeOps
    /\ \E parent \in 0..MaxTreeOps :
         tally' = [tally EXCEPT
                     !.ctx = add_child_step(tally.ctx, parent, 1), !.ops = @ + 1,
                     !.prev = tally.last,
                     !.last = [op |-> "add_child_step", before |-> tally.ctx,
                               parent |-> parent, returned |-> tally.ctx.next_step_id]]
    /\ UNCHANGED <<context, options, domain_cfg, pc, outcome, caller, hist, store>>

NextTree == EnsureRoot \/ AddChildStep

SpecTree == InitTree /\ [][NextTree]_vars

(***************************************************************************)
(* The resample loop of the sample collector against a language model that *)
(* answers each batch request as it likes                                  *)
(***************************************************************************)
\* the largest target of a collection
MaxBudgetTarget == 3

NoPass == [accepted |-> 0, requested |-> 0, resamples |-> 0, failed |-> FALSE]

\* the step metrics the collector writes
BudgetMetrics(ctx) == step_metrics_mut(ctx, 0).metrics.per_step[0]

InitBudget ==
    /\ Untouched
    /\ \E target \in 0..MaxBudgetTarget :
         tally = [phase |-> "budget", target |-> target, ctx |-> ContextNew(1),
                  st |-> [accepted |-> <<>>, attempts |-> 0], done |-> FALSE,
                  ok |-> FALSE, passes |-> 0, before |-> NoPass]

\* one pass of the while loop of collect_inner: sample_n answers with as many
\* responses as were requested, or fails
CollectPass ==
    /\ tally.phase = "budget"
    /\ ~tally.done
    /\ \E fails \in BOOLEAN,
          answer \in [1..MaxBudgetTarget -> CollectorSamples],
          perm \in Perms(1..Max2(0, tally.target - Len(tally.st.accepted))) :
       \E got \in {IF Len(tally.st.accepted) >= tally.target
                   THEN CollectDone(tally.ctx, tally.st.accepted, tally.st.attempts)
                   ELSE CollectIteration(tally.ctx, 0, tally.target,
                                         IF fails THEN <<>> ELSE answer, tally.st, perm)} :
         tally' = [tally EXCEPT
                     !.ctx = got.ctx, !.st = got.st, !.done = got.done, !.ok = got.ok,
                     !.passes = IF Len(tally.st.accepted) >= tally.target THEN @ ELSE @ + 1,
                     !.before = [accepted |-> Len(tally.st.accepted),
                                 requested |-> BudgetMetrics(tally.ctx).samples_requested,
                                 resamples |-> BudgetMetrics(tally.ctx).resamples,
                                 failed |-> fails /\ Len(tally.st.accepted) < tally.target]]
    /\ UNCHANGED <<context, options, domain_cfg, pc, outcome, caller, hist, store>>

NextBudget == CollectPass

SpecBudget == InitBudget /\ [][NextBudget]_vars

(***************************************************************************)
(* Specification of whole execute calls: a caller that owns the runner,    *)
(* every trigger off, and a loop that runs under weak fairness until the   *)
(* call returns; after a checkpoint the caller clears the wait state and   *)
(* calls execute again                                                     *)
(***************************************************************************)
\* more work items than one execute call of these runs executes
MaxTermItems == 20

\* decomposition depths 0, 1 and 2; every child has the words to recurse, or
\* only those of eight words and more; with and without checkpoints
TermOptions ==
    {RunnerOptions(1, 1, FALSE, depth, words, 0, 0, 0, sbs) :
        depth \in 0..2, words \in {1, 8}, sbs \in BOOLEAN}

TermDomain ==
    [agents |-> [kind \in AgentKinds |-> [samples |-> Some(1), k |-> None]],
     pipeline_empty |-> TRUE, applier |-> "none", verifier |-> FALSE]

InitTerm ==
    /\ options \in TermOptions
    /\ domain_cfg = TermDomain
    /\ \E dry_run \in BOOLEAN : context = [ContextNew(8) EXCEPT !.dry_run = dry_run]
    /\ pc = "idle"
    /\ outcome = NoOutcome
    /\ caller = "none"
    /\ hist = [NoHist EXCEPT !.budget = MaxTermItems]
    /\ store = None
    /\ tally = NoTally

\* one iteration of the while loop of execute, or its exit
LoopStep ==
    \/ RunDecomposition
    \/ RunDecompositionVote
    \/ RunSolve
    \/ RunSolutionVote
    \/ RunApplyVerify
    \/ RunnerComplete

NextTerm ==
    \/ Execute
    \/ ClearWaitState
    \/ DirectReturn
    \/ RunDecomposition
    \/ RunDecompositionVote
    \/ RunSolve
    \/ RunSolutionVote
    \/ RunApplyVerify
    \/ RunnerComplete

\* the loop is sequential code and every call it awaits returns
SpecTerm == InitTerm /\ [][NextTerm]_vars /\ WF_vars(LoopStep)

(***************************************************************************)
(* Two resume requests for one stored session: the POST                    *)
(* /sessions/{id}/resume handler, the resume process it spawns, and        *)
(* resume_session called from the command line                             *)
(***************************************************************************)
Requests == {1, 2}

\* a session that paused on a low margin of the solution vote of its root
PausedContext ==
    pause_with(ContextNew(1), WaitState(0, <<"solution vote", "low_margin">>),
               WorkItem("Solve", 0))

\* the context a resumed execute leaves behind, by its outcome
ResumedContext(ctx, out) ==
    IF out.kind = "Completed" THEN mark_step_solution(dequeue_work(ctx), 0, 1)
    ELSE IF out.kind = "Paused"
         THEN pause_with(dequeue_work(ctx), WaitState(0, <<"solution vote", "low_margin">>),
                         WorkItem("Solve", 0))
         ELSE mark_step_status(dequeue_work(ctx), 0, "Running")

InitRace ==
    /\ Untouched
    /\ \E via \in [Requests -> {"http", "cli"}], status \in {"paused", "failed"} :
         tally = [phase |-> "race", via |-> via,
                  at |-> [r \in Requests |-> "start"],
                  local |-> [r \in Requests |-> ContextDefault],
                  record |-> Unwrap(save(SessionEnvelope(PausedContext,
                                                         SessionMetadata(1, 1, FALSE, 1)),
                                         status))]

\* resume_session_handler: the status is loaded and checked, then the resume
\* process is spawned
HandlerCheck(r) ==
    /\ tally.phase = "race"
    /\ tally.at[r] = "start"
    /\ tally.via[r] = "http"
    /\ tally' = [tally EXCEPT !.at[r] = IF tally.record.status \in {"paused", "failed"}
                                        THEN "spawned" ELSE "rejected"]
    /\ UNCHANGED <<context, options, domain_cfg, pc, outcome, caller, hist, store>>

\* resume_session: the record is loaded and its wait state cleared
ResumeLoad(r) ==
    /\ tally.phase = "race"
    /\ \/ tally.at[r] = "spawned"
       \/ tally.at[r] = "start" /\ tally.via[r] = "cli"
    /\ tally' = [tally EXCEPT !.at[r] = "loaded",
                              !.local[r] = clear_wait_state(tally.record.envelope.context)]
    /\ UNCHANGED <<context, options, domain_cfg, pc, outcome, caller, hist, store>>

\* resume_session: the envelope is saved as running and execute is called
ResumeSaveRunning(r) ==
    /\ tally.phase = "race"
    /\ tally.at[r] = "loaded"
    /\ tally' = [tally EXCEPT
                   !.at[r] = "executing",
                   !.record = Unwrap(save(SessionEnvelope(tally.local[r],
                                                          tally.record.envelope.metadata),
                                          "running"))]
    /\ UNCHANGED <<context, options, domain_cfg, pc, outcome, caller, hist, store>>

\* resume_session: execute returned and the envelope is saved with the
\* status of the outcome
ResumeSaveFinal(r) ==
    /\ tally.phase = "race"
    /\ tally.at[r] = "executing"
    /\ \E out \in {Completed, Paused(PausedContext), Failure} :
       \E ctx \in {ResumedContext(tally.local[r], out)} :
         tally' = [tally EXCEPT
                     !.at[r] = "done", !.local[r] = ctx,
                     !.record = Unwrap(save(FinalEnvelope(tally.record.envelope, ctx),
                                            StatusOf(out)))]
    /\ UNCHANGED <<context, options, domain_cfg, pc, outcome, caller, hist, store>>

NextRace ==
    \E r \in Requests :
        \/ HandlerCheck(r)
        \/ ResumeLoad(r)
        \/ ResumeSaveRunning(r)
        \/ ResumeSaveFinal(r)

SpecRace == InitRace /\ [][NextRace]_vars

(***************************************************************************)
(* Properties of the vote tally                                            *)
(***************************************************************************)
Candidates == 0..(MaxCand - 1)

\* c is at least k ahead of every other candidate after the first n votes
AheadByKAt(votes, k, n, c) ==
    \A d \in Candidates \ {c} :
        CountOf(Prefix(votes, n), c) >= CountOf(Prefix(votes, n), d) + k

DecidingPrefixes(votes, k) ==
    {n \in 1..Len(votes) : \E c \in Candidates : AheadByKAt(votes, k, n, c)}

\* two candidates share the highest count after the first n votes
TiedLeadAt(votes, n) ==
    \E c, d \in Candidates :
        /\ c # d
        /\ CountOf(Prefix(votes, n), c) = CountOf(Prefix(votes, n), d)
        /\ \A e \in Candidates : CountOf(Prefix(votes, n), e) <= CountOf(Prefix(votes, n), c)

\* C9: first_to_ahead_by_k returns the candidate that is at least k ahead of
\* every other candidate (at least k votes when it is alone) at the earliest
\* prefix where some candidate is, whatever order the counts are iterated in,
\* and returns no decision when no prefix has such a candidate; a prefix with
\* a tied lead is never the one that decides.
C9_AheadByKEarliestPrefix ==
    tally.phase \in {"ahead", "majority"} =>
        LET deciding == DecidingPrefixes(tally.votes, tally.k)
        IN IF deciding = {} THEN tally.ahead = None
           ELSE LET first == CHOOSE n \in deciding : \A m \in deciding : n <= m
                IN /\ IsSome(tally.ahead)
                   /\ AheadByKAt(tally.votes, tally.k, first, Unwrap(tally.ahead))
                   /\ ~TiedLeadAt(tally.votes, first)

\* a decision taken only after a prefix in which the lead was tied
C9_DecisionAfterTie ==
    /\ tally.phase = "ahead"
    /\ IsSome(tally.ahead)
    /\ tally.k = 2
    /\ \E n \in 1..Len(tally.votes) :
         /\ TiedLeadAt(tally.votes, n)
         /\ \A m \in DecidingPrefixes(tally.votes, tally.k) : n < m

MostVotes(votes) == {c \in Candidates : \A d \in Candidates : CountOf(votes, d) <= CountOf(votes, c)}

\* C10: when no prefix reaches an ahead-by-k decision the winner is the
\* candidate with the most votes overall, and among candidates tied for the
\* most votes the one with the lowest index, whatever the order of arrival.
C10_MajorityTieLowestIndex ==
    (tally.phase = "majority" /\ tally.votes # <<>>) =>
        /\ IsSome(tally.majority)
        /\ Unwrap(tally.majority) \in MostVotes(tally.votes)
        /\ \A c \in MostVotes(tally.votes) : Unwrap(tally.majority) <= c

(***************************************************************************)
(* Properties of the sample collector                                      *)
(***************************************************************************)
\* C8: with a non-empty pipeline, collect either returns exactly the number
\* of samples asked for, none of them matched by a flagger, or fails and
\* returns no sample.
C8_CollectExactlyNClean ==
    tally.phase = "collected" =>
        IF tally.ok
        THEN /\ Len(tally.samples) = tally.target
             /\ \A i \in 1..Len(tally.samples) : tally.samples[i].matches = 0
        ELSE tally.samples = <<>>

\* a collection that returned two samples after discarding a flagged one
C8_CollectedAfterResample ==
    /\ tally.phase = "collected"
    /\ tally.ok
    /\ tally.target = 2
    /\ tally.metrics.red_flags > 0
    /\ tally.metrics.resamples > 0

(***************************************************************************)
(* Properties of the runner and the session use cases                      *)
(***************************************************************************)
Waiting(ctx) == {i \in 1..Len(ctx.steps) : ctx.steps[i].status = "WaitingOnInput"}

IsCheckpoint(wait) == wait.trigger = <<"step_by_step_checkpoint">>

RetryItem(item) ==
    IF item.kind = "DecompositionVote" THEN WorkItem("Decomposition", item.step_id)
    ELSE IF item.kind = "SolutionVote" THEN WorkItem("Solve", item.step_id)
    ELSE item

\* C2 as stated: whenever execute returns Paused, whatever the trigger, the
\* first element of the work queue is a retry item of the step named by the
\* returned wait state.
C2_PausedHeadIsRetryItem ==
    (pc = "returned" /\ outcome.kind = "Paused") =>
        /\ has_pending_work(context)
        /\ Head(context.work_queue).step_id = Unwrap(outcome.wait).step_id
        /\ Head(context.work_queue) = RetryItem(Unwrap(hist.current))

\* C2 amended: whenever execute returns Paused on a trigger other than
\* step_by_step_checkpoint, the first element of the work queue is the retry
\* item of the step named by the returned wait state: the item that paused,
\* or Decomposition / Solve of the step after a low-margin vote.
C2_TriggerPauseHeadIsRetryItem ==
    (pc = "returned" /\ outcome.kind = "Paused" /\ ~IsCheckpoint(Unwrap(outcome.wait))) =>
        /\ has_pending_work(context)
        /\ Head(context.work_queue).step_id = Unwrap(outcome.wait).step_id
        /\ Head(context.work_queue) = RetryItem(Unwrap(hist.current))

\* a low-margin solution vote paused with other work still queued
C2_LowMarginPause ==
    /\ pc = "returned"
    /\ outcome.kind = "Paused"
    /\ Unwrap(outcome.wait).trigger = <<"solution vote", "low_margin">>
    /\ Head(context.work_queue) = WorkItem("Solve", Unwrap(outcome.wait).step_id)
    /\ Len(context.work_queue) >= 2

CompletedHaveWinner(ctx) ==
    \A i \in 1..Len(ctx.steps) :
        ctx.steps[i].status = "Completed" => IsSome(ctx.steps[i].winning_solution)

\* C3: every Completed step has a winning solution, in the context the runner
\* works on and in the stored one.
C3_CompletedHasWinner ==
    /\ CompletedHaveWinner(context)
    /\ IsSome(store) => CompletedHaveWinner(Unwrap(store).envelope.context)

\* ApplyVerify has completed a step in a dry run
C3_DryRunApplied ==
    /\ context.dry_run
    /\ IsSome(hist.current)
    /\ Unwrap(hist.current).kind = "ApplyVerify"
    /\ step(context, Unwrap(hist.current).step_id).status = "Completed"

FollowUp(item) ==
    IF item.kind = "Decomposition" THEN Some(WorkItem("DecompositionVote", item.step_id))
    ELSE IF item.kind = "Solve" THEN Some(WorkItem("SolutionVote", item.step_id))
    ELSE IF item.kind = "SolutionVote" THEN Some(WorkItem("ApplyVerify", item.step_id))
    ELSE None

\* C4: inside one execute call, when Decomposition, Solve or SolutionVote of a
\* step finished without a pause, the item the loop takes next is the
\* DecompositionVote, SolutionVote or ApplyVerify of the same step.
C4_FollowUpRunsNext ==
    (pc = "loop" /\ IsSome(hist.last) /\ IsSome(FollowUp(Unwrap(hist.last)))) =>
        /\ has_pending_work(context)
        /\ Head(context.work_queue) = Unwrap(FollowUp(Unwrap(hist.last)))

\* a Solve finished while an item of another step was queued
C4_FollowUpAheadOfOthers ==
    /\ pc = "loop"
    /\ IsSome(hist.last)
    /\ Unwrap(hist.last).kind = "Solve"
    /\ Len(context.work_queue) >= 2
    /\ context.work_queue[2].step_id # Unwrap(hist.last).step_id

\* C5: a resume of a session whose stored status is neither paused nor failed
\* does not start the runner and leaves the stored record as it is.
C5_ResumeRejectedUnlessPausedOrFailed ==
    [][(pc = "idle" /\ IsSome(store) /\ Unwrap(store).status \notin {"paused", "failed"})
          => (pc' = "idle" /\ store' = store)]_vars

\* C6: when a task fails inside execute, the step of the current work item is
\* Failed when the error is returned.
C6_FailedStepOnTaskError ==
    (pc = "returned" /\ outcome.kind = "Err" /\ HasStep(context, Unwrap(hist.current).step_id))
        => step(context, Unwrap(hist.current).step_id).status = "Failed"

\* C7: while the runner works for run_session or resume_session the stored
\* status is running; once the use case returned, the stored status is
\* completed, paused or failed as the runner returned Completed, Paused or an
\* error, and the stored context is the context as the runner left it.
C7_StoredStatusFollowsOutcome ==
    caller \in {"run", "resume"} =>
        /\ IsSome(store)
        /\ pc \in {"loop", "returned"} => Unwrap(store).status = "running"
        /\ pc = "idle" =>
             /\ Unwrap(store).status = "completed" <=> outcome.kind = "Completed"
             /\ Unwrap(store).status = "paused" <=> outcome.kind = "Paused"
             /\ Unwrap(store).status = "failed" <=> outcome.kind = "Err"
             /\ Unwrap(store).envelope.context = context

\* a resumed session that progressed and was stored as paused again
C7_ResumedAndStored ==
    /\ caller = "resume"
    /\ pc = "idle"
    /\ Unwrap(store).status = "paused"
    /\ hist.executed >= 3

\* the work item the loop ran last, while the result of that iteration stands
\* and it was not a task error
Ran(kind) ==
    /\ pc \in {"loop", "returned"}
    /\ IsSome(hist.current)
    /\ Unwrap(hist.current).kind = kind
    /\ ~(pc = "returned" /\ outcome.kind = "Err")

PausedOn(step_id, trigger) ==
    /\ pc = "returned"
    /\ outcome.kind = "Paused"
    /\ outcome.wait = Some(WaitState(step_id, trigger))

LowMargin(step_id) ==
    /\ options.human_low_margin_threshold > 0
    /\ step_id \in DOMAIN context.metrics.per_step
    /\ IsSome(context.metrics.per_step[step_id].vote_margin)
    /\ Unwrap(context.metrics.per_step[step_id].vote_margin)
           <= options.human_low_margin_threshold

\* C11: after a DecompositionVote or SolutionVote of step s that did not fail,
\* execute pauses with the trigger "<stage>_low_margin" exactly when
\* human_low_margin_threshold is positive and the vote margin recorded for s
\* is at most the threshold; on that pause the head of the queue is
\* Decomposition{s} after a decomposition vote and Solve{s} after a solution
\* vote.
C11_LowMarginPauseIff ==
    /\ Ran("DecompositionVote") =>
         LET s == Unwrap(hist.current).step_id
         IN /\ PausedOn(s, <<"decomposition vote", "low_margin">>) <=> LowMargin(s)
            /\ PausedOn(s, <<"decomposition vote", "low_margin">>)
                 => Head(context.work_queue) = WorkItem("Decomposition", s)
    /\ Ran("SolutionVote") =>
         LET s == Unwrap(hist.current).step_id
         IN /\ PausedOn(s, <<"solution vote", "low_margin">>) <=> LowMargin(s)
            /\ PausedOn(s, <<"solution vote", "low_margin">>)
                 => Head(context.work_queue) = WorkItem("Solve", s)

\* a decomposition vote with a margin of one paused on a threshold of one and
\* queued the decomposition of the step again
C11_DecompositionRevote ==
    /\ Ran("DecompositionVote")
    /\ PausedOn(Unwrap(hist.current).step_id, <<"decomposition vote", "low_margin">>)
    /\ options.human_low_margin_threshold = 1
    /\ Head(context.work_queue) = WorkItem("Decomposition", Unwrap(hist.current).step_id)

\* the execute call in progress resumed from a low-margin solution vote
ResumedAfterLowMarginSolution ==
    /\ pc \in {"loop", "returned"}
    /\ IsSome(hist.resumed)
    /\ Unwrap(hist.resumed).wait.trigger = <<"solution vote", "low_margin">>

SeqRange(s) == {s[i] : i \in 1..Len(s)}

\* C12: in the execute call that follows clear_wait_state after a low-margin
\* solution vote on step s, the first item run is Solve{s} and the item after
\* it SolutionVote{s}, whose candidates are the ones that Solve registered;
\* when that vote is decisive the call goes on with ApplyVerify{s} and the
\* winning solution of s is one of the fresh candidates; without
\* step_by_step the call returns Completed once ApplyVerify{s} was the last
\* item, and at Completed the winning solution of s is one of the candidates
\* of the second attempt.
C12_ResumeSolvesAgain ==
    ResumedAfterLowMarginSolution =>
        LET s == Unwrap(hist.resumed).wait.step_id
            fresh == step(context, s).candidate_solutions
        IN /\ HasStep(context, s)
           /\ (pc = "loop" /\ ~IsSome(hist.current))
                => /\ has_pending_work(context)
                   /\ Head(context.work_queue) = WorkItem("Solve", s)
           /\ (pc = "loop" /\ hist.last = Some(WorkItem("Solve", s)))
                => /\ Head(context.work_queue) = WorkItem("SolutionVote", s)
                   /\ s \in DOMAIN context.pending_solutions
                   /\ context.pending_solutions[s] = fresh
           /\ (Ran("SolutionVote") /\ hist.current = Some(WorkItem("SolutionVote", s))
                  /\ ~LowMargin(s))
                => /\ pc = "loop"
                   /\ Head(context.work_queue) = WorkItem("ApplyVerify", s)
                   /\ IsSome(step(context, s).winning_solution)
                   /\ Unwrap(step(context, s).winning_solution) \in SeqRange(fresh)
           /\ (pc = "returned" /\ hist.current = Some(WorkItem("ApplyVerify", s))
                  /\ ~options.step_by_step)
                => outcome.kind = "Completed"
           /\ (pc = "returned" /\ outcome.kind = "Completed")
                => /\ ~has_pending_work(context)
                   /\ IsSome(step(context, s).winning_solution)
                   /\ Unwrap(step(context, s).winning_solution) \in SeqRange(fresh)

\* the resumed call completed with a winner that was not among the
\* candidates of the paused attempt
C12_FreshWinner ==
    /\ ResumedAfterLowMarginSolution
    /\ pc = "returned"
    /\ outcome.kind = "Completed"
    /\ Unwrap(step(context, Unwrap(hist.resumed).wait.step_id).winning_solution)
           \notin SeqRange(Unwrap(hist.resumed).candidates)
    /\ Unwrap(hist.resumed).candidates # <<>>

\* the metrics of a step, the default ones when none were recorded
MetricsOf(step_id) ==
    IF step_id \in DOMAIN context.metrics.per_step
    THEN context.metrics.per_step[step_id] ELSE StepMetricsDefault

RedFlagged(step_id) ==
    /\ options.human_red_flag_threshold > 0
    /\ MetricsOf(step_id).red_flags >= options.human_red_flag_threshold

Resampled(step_id) ==
    /\ options.human_resample_threshold > 0
    /\ MetricsOf(step_id).resamples >= options.human_resample_threshold

\* what holds after the sampling item ran for step s at the given stage
SamplingPauses(item, stage, vote) ==
    LET s == item.step_id
    IN /\ PausedOn(s, <<stage, "red_flags">>) <=> RedFlagged(s)
       /\ PausedOn(s, <<stage, "resamples">>) <=> (~RedFlagged(s) /\ Resampled(s))
       /\ (~RedFlagged(s) /\ ~Resampled(s))
            => /\ pc = "loop"
               /\ Head(context.work_queue) = WorkItem(vote, s)
       /\ (RedFlagged(s) \/ Resampled(s))
            => /\ pc = "returned"
               /\ outcome.kind = "Paused"
               /\ Head(context.work_queue) = item
               /\ WorkItem(vote, s) \notin SeqRange(context.work_queue)

\* C13: after a Decomposition or Solve task of step s that did not fail,
\* execute pauses with "<stage>_red_flags" when human_red_flag_threshold is
\* positive and the red-flag count of s has reached it; otherwise with
\* "<stage>_resamples" when human_resample_threshold is positive and the
\* resamples of s have reached it; otherwise it does not pause and the vote
\* item is next.  On either pause the same item is the head of the queue and
\* the vote item is not queued.
C13_SamplingTriggers ==
    /\ Ran("Decomposition")
         => SamplingPauses(Unwrap(hist.current), "decomposition sampling", "DecompositionVote")
    /\ Ran("Solve")
         => SamplingPauses(Unwrap(hist.current), "solver sampling", "SolutionVote")

\* a pause on red flags while the resamples had reached their threshold too
C13_RedFlagsBeforeResamples ==
    /\ Ran("Decomposition")
    /\ PausedOn(Unwrap(hist.current).step_id, <<"decomposition sampling", "red_flags">>)
    /\ Resampled(Unwrap(hist.current).step_id)
    /\ Head(context.work_queue) = Unwrap(hist.current)

Checkpoint == <<"step_by_step_checkpoint">>

\* the last n children of step s hold the last n places of the queue, each
\* with its Decomposition or Solve item
ChildrenQueuedLast(s, n) ==
    LET kids == step(context, s).children
        q == context.work_queue
    IN /\ n <= Len(kids)
       /\ n <= Len(q)
       /\ \A i \in 0..(n - 1) :
            q[Len(q) - i] \in {WorkItem("Decomposition", kids[Len(kids) - i]),
                               WorkItem("Solve", kids[Len(kids) - i])}

ResumedAfterCheckpoint ==
    /\ pc \in {"loop", "returned"}
    /\ IsSome(hist.resumed)
    /\ Unwrap(hist.resumed).wait.trigger = Checkpoint

\* C14: with step_by_step on, execute returns Paused with the trigger
\* step_by_step_checkpoint after a DecompositionVote on which no low-margin
\* trigger fired, with the items of the children at the back of the queue,
\* and after an ApplyVerify that completed its step, and not after one that
\* did not; the finished item is not in the queue of the paused context; the
\* execute call after clear_wait_state starts from the queue of the pause as
\* it was, and returns Completed without running anything when that queue
\* was empty.
C14_StepByStepCheckpoints ==
    options.step_by_step =>
        /\ (Ran("DecompositionVote") /\ ~LowMargin(Unwrap(hist.current).step_id))
             => /\ PausedOn(Unwrap(hist.current).step_id, Checkpoint)
                /\ \E n \in 1..Len(context.work_queue) :
                      ChildrenQueuedLast(Unwrap(hist.current).step_id, n)
                /\ Unwrap(hist.current) \notin SeqRange(context.work_queue)
        /\ (Ran("ApplyVerify")
               /\ step(context, Unwrap(hist.current).step_id).status = "Completed")
             => /\ PausedOn(Unwrap(hist.current).step_id, Checkpoint)
                /\ Unwrap(hist.current) \notin SeqRange(context.work_queue)
        /\ (Ran("ApplyVerify")
               /\ step(context, Unwrap(hist.current).step_id).status # "Completed")
             => ~(pc = "returned" /\ outcome.kind = "Paused")
        /\ ResumedAfterCheckpoint
             => /\ (pc = "loop" /\ ~IsSome(hist.current))
                     => context.work_queue = Unwrap(hist.resumed).queue
                /\ (pc = "returned" /\ Unwrap(hist.resumed).queue = <<>>)
                     => /\ outcome.kind = "Completed"
                        /\ ~IsSome(hist.current)

\* the third execute call returned Completed after a checkpoint on the
\* decomposition and a checkpoint on the completed step
C14_CompletedAfterCheckpoints ==
    /\ options.step_by_step
    /\ ResumedAfterCheckpoint
    /\ pc = "returned"
    /\ outcome.kind = "Completed"
    /\ Unwrap(hist.resumed).queue = <<>>
    /\ hist.executed = 5

\* the first execute call of a session returned Completed: no trigger paused
\* it and no task returned an error
SingleRunCompleted ==
    /\ pc = "returned"
    /\ outcome.kind = "Completed"
    /\ IsSome(hist.current)
    /\ \/ caller = "run"
       \/ caller = "direct" /\ ~IsSome(hist.resumed)

\* the steps a Solve item ran for
Solved(ctx) == {i \in 1..Len(ctx.steps) : ctx.steps[i].candidate_solutions # <<>>}

\* C15 as stated: when a single execute call returns Completed, the queue is
\* empty and every step that received a Solve item is Completed with a
\* winning solution that is one of its candidate solutions.
C15_SingleRunCompletesSolvedSteps ==
    SingleRunCompleted =>
        /\ ~has_pending_work(context)
        /\ \A i \in Solved(context) :
             /\ context.steps[i].status = "Completed"
             /\ IsSome(context.steps[i].winning_solution)
             /\ Unwrap(context.steps[i].winning_solution)
                    \in SeqRange(context.steps[i].candidate_solutions)

\* C15 amended: when a single execute call returns Completed, the queue is
\* empty and every step that received a Solve item has a winning solution
\* that is one of its candidate solutions; the step is Completed when the run
\* is a dry run or its verification passed, and Failed when the applier or
\* the verifier failed on it.
C15_SingleRunSettlesSolvedSteps ==
    SingleRunCompleted =>
        /\ ~has_pending_work(context)
        /\ \A i \in Solved(context) :
             /\ IsSome(context.steps[i].winning_solution)
             /\ Unwrap(context.steps[i].winning_solution)
                    \in SeqRange(context.steps[i].candidate_solutions)
             /\ context.steps[i].status \in {"Completed", "Failed"}
             /\ context.steps[i].status = "Completed"
                  <=> \/ context.dry_run
                      \/ MetricsOf(context.steps[i].id).verification_passed = Some(TRUE)

\* a single run that applied and verified the solution of its step
C15_AppliedAndVerified ==
    /\ SingleRunCompleted
    /\ ~context.dry_run
    /\ \E i \in Solved(context) :
         /\ context.steps[i].status = "Completed"
         /\ MetricsOf(context.steps[i].id).verification_passed = Some(TRUE)


(***************************************************************************)
(* Properties of the order of the collected samples                        *)
(***************************************************************************)
\* C19: the samples a collection returns are the responses that passed, in
\* the order in which the model returned them, within a batch and across
\* batches, whatever the order in which the evaluations of a batch complete.
C19_SamplesKeepArrivalOrder ==
    (tally.phase = "collected" /\ tally.ok) =>
        tally.samples = AcceptBatch(SubSeq(tally.script, 1, tally.drawn))

\* what does hold: the samples returned are the responses that passed, each
\* batch in the order of completion of its evaluations
C19_SamplesKeepCompletionOrder ==
    (tally.phase = "collected" /\ tally.ok) =>
        /\ Len(tally.samples) = Len(AcceptBatch(SubSeq(tally.script, 1, tally.drawn)))
        /\ \A x \in CollectorSamples :
             Cardinality({i \in 1..Len(tally.samples) : tally.samples[i] = x})
               = Cardinality({i \in 1..Len(AcceptBatch(SubSeq(tally.script, 1, tally.drawn))) :
                                AcceptBatch(SubSeq(tally.script, 1, tally.drawn))[i] = x})

\* a batch of two clean responses whose second evaluation completed first
C19_SecondCompletedFirst ==
    /\ tally.phase = "collected"
    /\ tally.ok
    /\ tally.target = 2
    /\ tally.arrived = << <<2, 1>> >>
    /\ tally.script[1] # tally.script[2]


(***************************************************************************)
(* Properties of a resumed session                                         *)
(***************************************************************************)
\* the sampling task of the item at the head of the queue, run on one script
\* of the model with one order of completion of the red-flag evaluations
SamplingRun(kind, in) ==
    IF kind = "Solve"
    THEN SolveTaskRun(dequeue_work(context), HeadItem.step_id, AgentOf("Solver"),
                      domain_cfg.pipeline_empty, in)
    ELSE DecompositionTaskRun(dequeue_work(context), HeadItem.step_id,
                              IF HasStep(context, HeadItem.step_id)
                              THEN step(context, HeadItem.step_id).description
                              ELSE context.prompt,
                              AgentOf("Decomposition"), domain_cfg.pipeline_empty, in)

SamplingScripts(kind) ==
    IF kind = "Solve"
    THEN SeqsUpTo(SolveSamples(AgentOf("Solver").samples), MaxScript)
    ELSE SeqsUpTo(DecompositionSamples, MaxScript)

SamplingAgent(kind) == IF kind = "Solve" THEN "Solver" ELSE "Decomposition"

\* C16: in a call that resumes a paused session, the options and the
\* responses of the model fix what follows: a sampling item about to run
\* leaves one context, one effect and one next action for each script of the
\* model, so two resumes of the same state with the same script reach the
\* same outcome and the same context.
C16_ResumeDeterministic ==
    (/\ pc = "loop"
     /\ IsSome(hist.resumed)
     /\ has_pending_work(context)
     /\ HeadItem.kind \in {"Solve", "Decomposition"}) =>
        \A llm \in SamplingScripts(HeadItem.kind) :
          \A first, second \in CompletionOrders(domain_cfg.pipeline_empty,
                                   AgentOf(SamplingAgent(HeadItem.kind)).samples, llm) :
             SamplingRun(HeadItem.kind, [render |-> TRUE, llm |-> llm, completion |-> first])
               = SamplingRun(HeadItem.kind,
                             [render |-> TRUE, llm |-> llm, completion |-> second])


(***************************************************************************)
(* Properties of the session store                                         *)
(***************************************************************************)
RowsOf(rows, session_id) == {r \in rows : r.session_id = session_id}

\* C17: a load returns the context and the status of the last save of that
\* session, equal in structure to what was saved, and fails for a session
\* never saved; the table holds one row for a session saved once or more;
\* a save leaves the rows of every other session as they were.
C17_SaveLoadRoundTrip ==
    tally.phase = "store" =>
        /\ \A id \in SessionIds :
             /\ Cardinality(RowsOf(tally.rows, id)) = IF IsSome(tally.saved[id]) THEN 1 ELSE 0
             /\ IF IsSome(tally.saved[id])
                THEN /\ load(tally.rows, id).ok
                     /\ load(tally.rows, id).envelope = Unwrap(tally.saved[id]).envelope
                     /\ load(tally.rows, id).status = Unwrap(tally.saved[id]).status
                ELSE ~load(tally.rows, id).ok
        /\ tally.op.kind = "save" =>
             \A id \in SessionIds \ {tally.op.session_id} :
                RowsOf(tally.rows, id) = RowsOf(tally.op.before, id)
        /\ tally.op.kind = "load" =>
             IF IsSome(tally.saved[tally.op.session_id])
             THEN /\ tally.op.record.ok
                  /\ tally.op.record.envelope.context
                       = Unwrap(tally.saved[tally.op.session_id]).envelope.context
                  /\ tally.op.record.status = Unwrap(tally.saved[tally.op.session_id]).status
             ELSE ~tally.op.record.ok

\* a session saved twice with different contexts and statuses, then loaded,
\* while the other session is stored as well
C17_LoadedAfterSecondSave ==
    /\ tally.phase = "store"
    /\ tally.op.kind = "load"
    /\ tally.op.session_id = "a"
    /\ tally.op.record.ok
    /\ tally.op.record.status = "Paused"
    /\ IsSome(tally.op.record.envelope.context.wait_state)
    /\ DOMAIN tally.op.record.envelope.context.pending_solutions = {0}
    /\ RowsOf(tally.rows, "b") # {}


(***************************************************************************)
(* Properties of the model client                                          *)
(***************************************************************************)
InFlight == {c \in Calls : tally.calls[c].state = "running"}

\* C18: the calls in flight on one client are never more than
\* max(1, max_concurrent_llm), the free permits are always the limit less
\* the calls in flight, so a call that ends, in success or in failure, gives
\* its permit back, and every call waiting for a permit gets one (or is
\* aborted with its sample_n).
C18_PermitsBoundCalls ==
    /\ [](tally.phase = "llm" =>
            /\ Cardinality(InFlight) <= tally.limit
            /\ tally.permits = tally.limit - Cardinality(InFlight))
    /\ \A c \in Calls :
         (tally.phase = "llm" /\ tally.calls[c].state = "waiting")
            ~> (tally.calls[c].state \in {"running", "aborted"})

\* with one permit, a call that had to wait runs after another call failed
C18_RunsAfterFailedCall ==
    /\ tally.phase = "llm"
    /\ tally.limit = 1
    /\ \E c, d \in Calls :
         /\ tally.calls[c].state = "running"
         /\ tally.calls[c].blocked
         /\ tally.calls[c].kind = "chat_completion"
         /\ tally.calls[d].state = "err"


(***************************************************************************)
(* Properties of the overwrite_file applier                                *)
(***************************************************************************)
\* the piece at place i stands alone between separators or the ends of raw
ComponentAt(raw, i) ==
    /\ i = 1 \/ raw[i - 1] = "/"
    /\ i = Len(raw) \/ raw[i + 1] = "/"

\* an absolute path, or one with a component ".." or ".git"
UnsafePath(raw) ==
    \/ raw[1] = "/"
    \/ \E i \in 1..Len(raw) : raw[i] \in {"..", ".git"} /\ ComponentAt(raw, i)

\* C20: the overwrite_file applier writes no file whose target path is
\* absolute or has a component ".." or ".git", and when it runs (the run is
\* not a dry run) on a solution with such a target, the step is left Failed.
C20_NoUnsafeWrite ==
    tally.phase = "applied" =>
        /\ \A raw \in tally.written : ~UnsafePath(raw)
        /\ (~tally.ctx.dry_run /\ \E i \in 1..Len(tally.files) : UnsafePath(tally.files[i]))
              => step(tally.ctx, 0).status = "Failed"

\* two file blocks, src/src written and src/.git refused, the step Failed
C20_SafeWrittenUnsafeRefused ==
    /\ tally.phase = "applied"
    /\ tally.files = << <<"src", "/", "src">>, <<"src", "/", ".git">> >>
    /\ tally.written = {<<"src", "/", "src">>}
    /\ step(tally.ctx, 0).status = "Failed"


(***************************************************************************)
(* Properties of the recorded vote margins                                 *)
(***************************************************************************)
\* the votes of the winner less the most votes any other candidate has,
\* over all the parsed votes
LeadOf(votes, winner) ==
    CountOf(votes, winner)
        - SetMax({CountOf(votes, c) : c \in Candidates \ {winner}} \cup {0})

\* C21: the margin a vote records, in the metrics of the step and as the
\* newest entry of the history of its discriminator, is at least 1 and is
\* max(1, votes of the winner - most votes of another candidate), both
\* counted over all the parsed votes.
C21_MarginIsFlooredLead ==
    tally.phase = "recorded" =>
        \E margin \in {Max2(1, LeadOf(tally.votes, tally.winner_idx))} :
           /\ margin >= 1
           /\ tally.ctx.metrics.per_step[0].vote_margin = Some(margin)
           /\ tally.ctx.metrics.vote_history[tally.kind].recent_margins = <<margin>>
           /\ tally.ctx.metrics.vote_history[tally.kind].total_votes = 1

\* a vote whose winner is level with another candidate: the margin is the floor
C21_TiedVoteRecordsOne ==
    /\ tally.phase = "recorded"
    /\ tally.votes # <<>>
    /\ LeadOf(tally.votes, tally.winner_idx) = 0
    /\ tally.ctx.metrics.per_step[0].vote_margin = Some(1)


(***************************************************************************)
(* Properties of the vote history                                          *)
(***************************************************************************)
\* the last n entries of a sequence, all of it when it is shorter
LastOf(s, n) == SubSeq(s, Max2(1, Len(s) - n + 1), Len(s))

RingOf(kind) ==
    IF kind \in DOMAIN tally.ctx.metrics.vote_history
    THEN tally.ctx.metrics.vote_history[kind]
    ELSE VoteStatsDefault

\* C22: for each discriminator, after any sequence of record_vote calls the
\* ring holds at most 8 margins, they are the margins of the last min(8, n)
\* votes of that discriminator in the order they were recorded, and
\* total_votes is n.
C22_RingHoldsLastEight ==
    tally.phase = "ring" =>
        \A kind \in Discriminators :
           /\ Len(RingOf(kind).recent_margins) <= 8
           /\ RingOf(kind).recent_margins = LastOf(tally.log[kind], 8)
           /\ RingOf(kind).total_votes = Len(tally.log[kind])

\* nine votes of one discriminator: the first margin, unlike the rest, is gone
C22_OldestEvicted ==
    /\ tally.phase = "ring"
    /\ Len(tally.log["SolutionDiscriminator"]) = 9
    /\ tally.log["SolutionDiscriminator"][1] = 4
    /\ \A i \in 2..9 : tally.log["SolutionDiscriminator"][i] = 1
    /\ RingOf("SolutionDiscriminator").recent_margins = <<1, 1, 1, 1, 1, 1, 1, 1>>

\* base_k of a resolved k
BaseOf(r) == Max2(1, IF IsSome(r.k) THEN Unwrap(r.k) ELSE r.default_k)

\* C23: resolve_k returns base_k = max(1, agent.k or default_k) when
\* adaptive_k is off or the ring of the kind is empty; otherwise, avg being
\* the mean of the ring, base_k + 1 when avg < 0.75 base_k, base_k - 1 when
\* avg > 1.5 base_k and base_k > 1, base_k in every other case; the result
\* is at least 1 and at most 1 away from base_k.
C23_EffectiveK ==
    (tally.phase = "ring" /\ IsSome(tally.resolved)) =>
        \E r \in {Unwrap(tally.resolved)} :
        \E base_k \in {BaseOf(r)}, ring \in {RingOf(r.kind).recent_margins} :
           /\ r.vote_k >= 1
           /\ r.vote_k \in {base_k - 1, base_k, base_k + 1}
           /\ r.vote_k =
                IF ~r.adaptive_k \/ ring = <<>> THEN base_k
                ELSE IF 4 * SumSeq(ring) < 3 * base_k * Len(ring) THEN base_k + 1
                ELSE IF 2 * SumSeq(ring) > 3 * base_k * Len(ring) /\ base_k > 1
                     THEN base_k - 1
                     ELSE base_k

\* a k lowered after wide margins and a k raised after narrow ones
C23_LoweredAfterWideMargins ==
    /\ tally.phase = "ring"
    /\ IsSome(tally.resolved)
    /\ Unwrap(tally.resolved).adaptive_k
    /\ BaseOf(Unwrap(tally.resolved)) = 2
    /\ Unwrap(tally.resolved).vote_k = 1
    /\ Len(RingOf(Unwrap(tally.resolved).kind).recent_margins) >= 2


(***************************************************************************)
(* Properties of the step tree                                             *)
(***************************************************************************)
\* ids strictly increasing along steps and below next_step_id; the children
\* of a step are later steps that name it as their parent; a step with a
\* parent is one level below it and is listed among its children; the root
\* has no parent and depth 0
WellFormedTree(ctx) ==
    /\ \A i, j \in 1..Len(ctx.steps) : i < j => ctx.steps[i].id < ctx.steps[j].id
    /\ \A i \in 1..Len(ctx.steps) : ctx.steps[i].id < ctx.next_step_id
    /\ \A i \in 1..Len(ctx.steps) :
         \A n \in 1..Len(ctx.steps[i].children) :
            \E child \in {ctx.steps[i].children[n]} :
               /\ child > ctx.steps[i].id
               /\ HasStep(ctx, child)
               /\ step(ctx, child).parent = Some(ctx.steps[i].id)
    /\ \A i \in 1..Len(ctx.steps) :
         IF IsSome(ctx.steps[i].parent)
         THEN /\ HasStep(ctx, Unwrap(ctx.steps[i].parent))
              /\ ctx.steps[i].depth = step(ctx, Unwrap(ctx.steps[i].parent)).depth + 1
              /\ \E n \in 1..Len(step(ctx, Unwrap(ctx.steps[i].parent)).children) :
                   step(ctx, Unwrap(ctx.steps[i].parent)).children[n] = ctx.steps[i].id
         ELSE /\ ctx.steps[i].depth = 0
              /\ ctx.root_step_id = Some(ctx.steps[i].id)

\* C24: in every context a session reaches, in the runner and in the store,
\* step ids are unique and increase in the order of creation, every child
\* listed by a step has a greater id and names that step as its parent,
\* every step but the root is one level deeper than its parent, and the
\* root has depth 0.
C24_StepTreeWellFormed ==
    /\ WellFormedTree(context)
    /\ IsSome(store) => WellFormedTree(Unwrap(store).envelope.context)

\* a step two levels below the root
C24_GrandchildCreated ==
    \E i \in 1..Len(context.steps) :
       /\ context.steps[i].depth = 2
       /\ Len(step(context, Unwrap(context.steps[i].parent)).children) >= 1


(***************************************************************************)
(* Properties of ensure_root and add_child_step                            *)
(***************************************************************************)
\* C25: ensure_root on a context with a root returns the id of that root
\* and changes nothing; on a context without one it creates one step, the
\* root, and returns its id; a second call right after the first returns
\* the same id and adds no step.
C25_EnsureRootIdempotent ==
    (tally.phase = "tree" /\ tally.last.op = "ensure_root") =>
        /\ IF IsSome(tally.last.before.root_step_id)
           THEN /\ tally.ctx = tally.last.before
                /\ tally.last.returned = Unwrap(tally.last.before.root_step_id)
           ELSE /\ Len(tally.ctx.steps) = Len(tally.last.before.steps) + 1
                /\ tally.ctx.work_queue = tally.last.before.work_queue
                /\ tally.ctx.root_step_id = Some(tally.last.returned)
                /\ HasStep(tally.ctx, tally.last.returned)
        /\ tally.prev.op = "ensure_root" =>
              /\ tally.last.returned = tally.prev.returned
              /\ tally.ctx = tally.last.before
              /\ Len(tally.ctx.steps) <= Len(tally.prev.before.steps) + 1

\* two calls in a row on a context that had no root: one step was created
C25_SecondCallCreatedNothing ==
    /\ tally.phase = "tree"
    /\ tally.last.op = "ensure_root"
    /\ tally.prev.op = "ensure_root"
    /\ ~IsSome(tally.prev.before.root_step_id)
    /\ Len(tally.ctx.steps) = Len(tally.prev.before.steps) + 1

\* C26: add_child_step with a parent id that no step has fails and adds no
\* step; with the id of a step it adds the child.
C26_UnknownParentAddsNothing ==
    (tally.phase = "tree" /\ tally.last.op = "add_child_step") =>
        IF HasStep(tally.last.before, tally.last.parent)
        THEN /\ Len(tally.ctx.steps) = Len(tally.last.before.steps) + 1
             /\ step(tally.ctx, tally.last.returned).parent = Some(tally.last.parent)
        ELSE tally.ctx.steps = tally.last.before.steps


(***************************************************************************)
(* Properties of the inputs of votes and of apply                          *)
(***************************************************************************)
\* what the task of a work item takes from the context
InputReady(ctx, item) ==
    CASE item.kind = "DecompositionVote" ->
           /\ item.step_id \in DOMAIN ctx.pending_decompositions
           /\ ctx.pending_decompositions[item.step_id] # <<>>
      [] item.kind = "SolutionVote" ->
           /\ item.step_id \in DOMAIN ctx.pending_solutions
           /\ ctx.pending_solutions[item.step_id] # <<>>
      [] item.kind = "ApplyVerify" ->
           /\ HasStep(ctx, item.step_id)
           /\ IsSome(step(ctx, item.step_id).winning_solution)
      [] OTHER -> TRUE

\* C27: in a session started by run_session and continued by pauses and
\* resume_session calls, the item the loop dequeues next has its input:
\* proposals are pending for a DecompositionVote, candidates are pending for
\* a SolutionVote, and the step of an ApplyVerify has a winning solution.
C27_VoteAndApplyHaveInput ==
    (caller \in {"run", "resume"} /\ pc = "loop" /\ has_pending_work(context)) =>
        InputReady(context, HeadItem)

\* a resumed session about to dequeue a SolutionVote
C27_VoteDequeuedAfterResume ==
    /\ caller = "resume"
    /\ pc = "loop"
    /\ has_pending_work(context)
    /\ HeadItem.kind = "SolutionVote"
    /\ InputReady(context, HeadItem)


(***************************************************************************)
(* Properties of the routing of spawned children                           *)
(***************************************************************************)
\* ids of the steps created between two contexts, in creation order
SpawnedBetween(before, after) ==
    [i \in 1..(after.next_step_id - before.next_step_id) |-> before.next_step_id + i - 1]

\* the work item of a spawned child
RoutedItem(ctx, child) ==
    IF /\ step(ctx, child).depth < options.max_decomposition_depth
       /\ step(ctx, child).description >= options.min_words_for_decomposition
    THEN WorkItem("Decomposition", child)
    ELSE WorkItem("Solve", child)

\* a DecompositionVote iteration after which the loop goes on
VoteRoutesChildren ==
    /\ pc = "loop"
    /\ has_pending_work(context)
    /\ HeadItem.kind = "DecompositionVote"
    /\ hist'.executed = hist.executed + 1
    /\ pc' = "loop"

\* C28: a DecompositionVote that does not pause appends one item per spawned
\* child to the back of the queue, in subtask order, Decomposition when the
\* child is above the depth bound and has enough words and Solve otherwise;
\* the items that were queued keep their order ahead of the new ones.
C28_ChildrenRoutedToBack ==
    [][VoteRoutesChildren =>
         LET spawned == SpawnedBetween(context, context')
         IN /\ spawned # <<>>
            /\ \A i \in DOMAIN spawned :
                 /\ HasStep(context', spawned[i])
                 /\ step(context', spawned[i]).parent = Some(HeadItem.step_id)
            /\ context'.work_queue =
                 Tail(context.work_queue)
                   \o [i \in DOMAIN spawned |-> RoutedItem(context', spawned[i])]]_vars

\* a vote on a child spawned a grandchild at the depth bound with enough words
\* to decompose: it is queued for Solve behind a Solve item queued before
C28_DeepChildRoutedToSolve ==
    /\ pc = "loop"
    /\ IsSome(hist.current)
    /\ Unwrap(hist.current).kind = "DecompositionVote"
    /\ Len(context.work_queue) >= 2
    /\ LET q == context.work_queue
           last == q[Len(q)]
       IN /\ last.kind = "Solve"
          /\ HasStep(context, last.step_id)
          /\ step(context, last.step_id).parent = Some(Unwrap(hist.current).step_id)
          /\ step(context, last.step_id).depth >= options.max_decomposition_depth
          /\ step(context, last.step_id).description >= options.min_words_for_decomposition
          /\ step(context, q[1].step_id).parent # Some(Unwrap(hist.current).step_id)


(***************************************************************************)
(* Properties of the resample budget                                       *)
(***************************************************************************)
\* the collector is short of its target after the pass just made
StillShort == Len(tally.st.accepted) < tally.target

\* C29: for target N the collector makes at most max(N,1)*4 batch requests,
\* and when the last of them leaves it short it fails; a batch asks for N
\* minus the number of samples accepted before it; the resamples counter
\* grows by one with each batch that leaves the collector short, the failing
\* one included.
C29_ResampleLoopBounded ==
    tally.phase = "budget" =>
        /\ tally.passes <= Max2(tally.target, 1) * 4
        /\ tally.st.attempts = tally.passes
        /\ (tally.passes = Max2(tally.target, 1) * 4 /\ StillShort) =>
               (tally.done /\ ~tally.ok)
        /\ (tally.passes > 0 /\ ~tally.before.failed) =>
               /\ BudgetMetrics(tally.ctx).samples_requested
                    = tally.before.requested + (tally.target - tally.before.accepted)
               /\ BudgetMetrics(tally.ctx).resamples
                    = tally.before.resamples
                        + (IF StillShort THEN 1 ELSE 0)
        /\ (tally.done /\ tally.ok) => Len(tally.st.accepted) >= tally.target

\* a target of two: the eighth batch left the collector short and it failed
C29_BudgetExhausted ==
    /\ tally.phase = "budget"
    /\ tally.target = 2
    /\ tally.passes = 8
    /\ ~tally.before.failed
    /\ tally.done
    /\ ~tally.ok
    /\ BudgetMetrics(tally.ctx).resamples = 8


(***************************************************************************)
(* Properties of the termination of execute                                *)
(***************************************************************************)
\* the most subtasks a proposal has
MaxSubtasks == SetMax({Len(parse_subtasks(s.raw)) : s \in DecompositionSamples})

\* the work items that follow from a Decomposition item of a step at a depth:
\* itself, its vote, and for each child either the same again, while the
\* child is above the depth bound, or Solve, SolutionVote and ApplyVerify
RECURSIVE ItemsOfDecomposition(_, _)
ItemsOfDecomposition(depth, max_depth) ==
    2 + MaxSubtasks * (IF depth + 1 < max_depth
                       THEN ItemsOfDecomposition(depth + 1, max_depth)
                       ELSE 3)

\* C30: every execute call returns, with Completed, Paused or an error, after
\* finitely many work items: a call that entered the loop leaves it, and the
\* items executed on one context, by the first call and the calls that
\* follow its checkpoints, are no more than the depth bound and the size of
\* the proposals allow.
C30_ExecuteTerminates ==
    /\ [](hist.executed <= ItemsOfDecomposition(0, options.max_decomposition_depth))
    /\ [](hist.executed < hist.budget)
    /\ (pc = "loop") ~> (pc = "returned" /\ outcome.kind \in {"Completed", "Paused", "Err"})

\* a call at depth bound 2 returned Completed after it solved a grandchild
C30_DeepRunCompleted ==
    /\ options \in TermOptions
    /\ pc = "returned"
    /\ outcome.kind = "Completed"
    /\ hist.executed >= 8
    /\ \E i \in 1..Len(context.steps) :
         /\ context.steps[i].depth = 2
         /\ context.steps[i].status = "Completed"


(***************************************************************************)
(* Properties of the applier after a failed file block                     *)
(***************************************************************************)
\* the i-th file block was refused by the validation or its write failed
BlockFailed(i) == ~validate_target_path(tally.files[i]) \/ ~tally.fs[i]

\* the blocks before the first one that failed
BeforeFailure == {k \in 1..Len(tally.files) : \A i \in 1..k : ~BlockFailed(i)}

\* C31: with several file blocks, once a block fails its validation or its
\* write, no later block of the solution is written, and the step ends
\* Failed without the StepCompleted effect.
C31_NothingWrittenAfterFailure ==
    (/\ tally.phase = "applied"
     /\ tally.blocks
     /\ ~tally.ctx.dry_run
     /\ \E i \in 1..Len(tally.files) : BlockFailed(i)) =>
        /\ tally.written = {tally.files[k] : k \in BeforeFailure}
        /\ step(tally.ctx, 0).status = "Failed"
        /\ tally.effect # "StepCompleted"


(***************************************************************************)
(* Properties of the verify stage                                          *)
(***************************************************************************)
\* verification_passed of the step that was applied
VerificationPassed ==
    IF 0 \in DOMAIN tally.ctx.metrics.per_step
    THEN tally.ctx.metrics.per_step[0].verification_passed
    ELSE None

\* C32: outside dry_run, when the apply stage did not fail, the step ends
\* Completed with verification_passed = true and the StepCompleted effect
\* iff no verifier is configured or the verifier exits with status zero, and
\* otherwise ends Failed with verification_passed = false and no
\* StepCompleted effect; in dry_run the step ends Completed, nothing is
\* written and no verification is recorded.
C32_VerifierDecidesCompletion ==
    tally.phase = "applied" =>
        IF tally.ctx.dry_run
        THEN /\ step(tally.ctx, 0).status = "Completed"
             /\ tally.effect = "StepCompleted"
             /\ tally.written = {}
             /\ VerificationPassed = None
        ELSE tally.applied =>
               IF ~tally.verifier \/ tally.verified
               THEN /\ step(tally.ctx, 0).status = "Completed"
                    /\ VerificationPassed = Some(TRUE)
                    /\ tally.effect = "StepCompleted"
               ELSE /\ step(tally.ctx, 0).status = "Failed"
                    /\ VerificationPassed = Some(FALSE)
                    /\ tally.effect # "StepCompleted"

\* the files were written and the verifier exited with a non-zero status
C32_AppliedButNotVerified ==
    /\ tally.phase = "applied"
    /\ ~tally.ctx.dry_run
    /\ tally.applied
    /\ tally.written # {}
    /\ tally.verifier
    /\ ~tally.verified
    /\ step(tally.ctx, 0).status = "Failed"


(***************************************************************************)
(* Properties of the retry after a sampling pause                          *)
(***************************************************************************)
SamplingTriggers ==
    {<<stage, cause>> : stage \in {"decomposition sampling", "solver sampling"},
                        cause \in {"red_flags", "resamples"}}

\* the first work item of a call that resumes from a sampling pause is the
\* retry of the paused step, it runs without failing, and none of its
\* samples is flagged (no red flag and no resample is added to the step)
CleanRetryAfterSamplingPause ==
    /\ pc = "loop"
    /\ IsSome(hist.resumed)
    /\ Unwrap(hist.resumed).wait.trigger \in SamplingTriggers
    /\ hist.current = None
    /\ has_pending_work(context)
    /\ HeadItem.step_id = Unwrap(hist.resumed).wait.step_id
    /\ HeadItem.kind \in {"Decomposition", "Solve"}
    /\ hist'.executed = hist.executed + 1
    /\ outcome'.kind # "Err"
    /\ HeadItem.step_id \in DOMAIN context.metrics.per_step
    /\ context'.metrics.per_step[HeadItem.step_id].red_flags
         = context.metrics.per_step[HeadItem.step_id].red_flags
    /\ context'.metrics.per_step[HeadItem.step_id].resamples
         = context.metrics.per_step[HeadItem.step_id].resamples

\* C33: after a pause on <stage>_red_flags or <stage>_resamples for step s
\* and clear_wait_state, an execute whose samples all pass the red-flag
\* pipeline goes on to the vote for s instead of pausing again.
C33_CleanRetryReachesVote ==
    [][CleanRetryAfterSamplingPause =>
         /\ pc' = "loop"
         /\ has_pending_work(context')
         /\ Head(context'.work_queue)
              = WorkItem(FollowUp(HeadItem).kind, HeadItem.step_id)]_vars


(***************************************************************************)
(* Properties of the children of a decomposed step                         *)
(***************************************************************************)
\* the subtask lists a winning proposal for a step can have: those parsed
\* from a response, or the step's own description when none is parsed
ProposalSubtasks(ctx, s) ==
    {IF parse_subtasks(r.raw) = <<>> THEN <<step(ctx, s).description>>
     ELSE parse_subtasks(r.raw) : r \in DecompositionSamples}

\* the descriptions of the children of step s, in order
ChildDescriptions(ctx, s) ==
    [i \in 1..Len(step(ctx, s).children) |->
        step(ctx, step(ctx, s).children[i]).description]

\* C34: whatever pauses and resumes a session went through, the children of
\* a step are the subtasks of one winning proposal, and no child has more
\* than one Decomposition or Solve item in the queue.
C34_ChildrenOfOneProposal ==
    \A i \in 1..Len(context.steps) :
        LET s == context.steps[i]
        IN /\ s.children # <<>> =>
                ChildDescriptions(context, s.id) \in ProposalSubtasks(context, s.id)
           /\ IsSome(s.parent) =>
                Cardinality({n \in 1..Len(context.work_queue) :
                                /\ context.work_queue[n].step_id = s.id
                                /\ context.work_queue[n].kind \in {"Decomposition", "Solve"}})
                    <= 1


(***************************************************************************)
(* Properties of the session saved after a failed task                     *)
(***************************************************************************)
\* C35: when a task fails inside execute, the context saved with status
\* failed still has the work item that was being executed at the front of
\* its queue, and a resume of a failed session does not return Completed
\* without having executed a work item.
C35_FailedItemKeptForResume ==
    /\ (/\ pc = "idle"
        /\ caller \in {"run", "resume"}
        /\ outcome.kind = "Err"
        /\ IsSome(store)
        /\ Unwrap(store).status = "failed"
        /\ IsSome(hist.current)) =>
           /\ Unwrap(store).envelope.context.work_queue # <<>>
           /\ Head(Unwrap(store).envelope.context.work_queue) = Unwrap(hist.current)
    /\ (/\ pc = "returned"
        /\ caller = "resume"
        /\ hist.prev_status = "failed"
        /\ outcome.kind = "Completed") => IsSome(hist.current)


(***************************************************************************)
(* Properties of the context when execute returns Completed                *)
(***************************************************************************)
\* C36: when execute returns Completed the work queue is empty and every
\* step without children is Completed or Failed.
C36_CompletedLeavesSettled ==
    (pc = "returned" /\ outcome.kind = "Completed") =>
        /\ context.work_queue = <<>>
        /\ \A i \in 1..Len(context.steps) :
             context.steps[i].children = <<>> =>
                context.steps[i].status \in {"Completed", "Failed"}


(***************************************************************************)
(* Properties of run_subprocess                                            *)
(***************************************************************************)
\* the root of a subprocess run was solved with a decisive vote and its
\* apply and verify stage succeeded
SubprocessSolved ==
    /\ caller = "subprocess"
    /\ pc = "idle"
    /\ tally.phase = "subprocess"
    /\ step(context, tally.step_id).status = "Completed"
    /\ tally.step_id \in DOMAIN context.metrics.per_step
    /\ IsSome(context.metrics.per_step[tally.step_id].vote_margin)
    /\ Unwrap(context.metrics.per_step[tally.step_id].vote_margin)
         > options.human_low_margin_threshold
    /\ context.dry_run
         \/ context.metrics.per_step[tally.step_id].verification_passed = Some(TRUE)

\* C37: run_subprocess executes one Solve and one SolutionVote for the root
\* and, when the vote is decisive and apply and verify succeed, returns a
\* successful outcome with the candidate solutions and the winning solution
\* of the root.
C37_SubprocessReturnsWinner ==
    SubprocessSolved =>
        /\ tally.ok
        /\ tally.candidate_solutions = step(context, tally.step_id).candidate_solutions
        /\ tally.winning_solution = step(context, tally.step_id).winning_solution
        /\ IsSome(tally.winning_solution)


(***************************************************************************)
(* Properties of concurrent resume requests                                *)
(***************************************************************************)
\* the requests whose runner is executing the session
Executing == {r \in Requests : tally.at[r] = "executing"}

\* C38: of two resume requests for the same paused session at most one
\* starts executing it and the other is rejected: two runners never execute
\* the session at the same time.
C38_OneRunnerPerSession ==
    tally.phase = "race" =>
        Cardinality(Executing) <= 1


(***************************************************************************)
(* Properties of the step ids in the work queue                            *)
(***************************************************************************)
\* no two places of the queue hold items of the same step
DistinctStepIds(queue) ==
    \A i \in 1..Len(queue), j \in 1..Len(queue) :
        i # j => queue[i].step_id # queue[j].step_id

\* C39: in a session created by run_session and continued by pauses and
\* resumes, the work queue never holds two items with the same step id, in
\* the runner and in the stored context.
C39_OneItemPerStepInQueue ==
    caller \in {"run", "resume"} =>
        /\ DistinctStepIds(context.work_queue)
        /\ IsSome(store) => DistinctStepIds(Unwrap(store).envelope.context.work_queue)

\* a resumed session with the items of two children behind a retry item
C39_ResumedWithSeveralItems ==
    /\ caller = "resume"
    /\ pc = "loop"
    /\ Len(context.work_queue) >= 2
    /\ DistinctStepIds(context.work_queue)


(***************************************************************************)
(* One vote item of the runner: the discriminator's raw responses, the     *)
(* vote task and the low-margin check                                      *)
(***************************************************************************)
MaxBallots == 2
MaxChoices == 2

\* raw responses: no digit at all, a choice, a choice after a token without
\* digits, and a number past the last candidate
BallotResponses ==
    {<<0>>, <<0, 0>>, <<MaxChoices + 1>>} \cup {<<c>> : c \in 1..MaxChoices}
        \cup {<<0, c>> : c \in 1..MaxChoices}

\* the root step with `count` candidates registered for its vote
BallotContext(kind, count) ==
    LET c0 == ensure_root(ContextNew(1))
        root == Unwrap(c0.root_step_id)
    IN IF kind = "SolutionVote"
       THEN register_solutions(c0, root, [i \in 1..count |-> i])
       ELSE register_decomposition(c0, root,
                [i \in 1..count |-> DecompositionProposal(i - 1, <<i>>, <<i>>)])

InitBallot ==
    /\ Untouched
    /\ \E kind \in {"DecompositionVote", "SolutionVote"}, count \in 1..MaxChoices,
          samples \in 1..MaxBallots, k \in 1..MaxK, low_margin \in 0..2 :
         tally = [phase |-> "ballot", kind |-> kind, count |-> count,
                  agent |-> [samples |-> samples, k |-> Some(k)],
                  opts |-> RunnerOptions(samples, k, FALSE, 1, 5, 0, 0, low_margin, FALSE),
                  ctx |-> enqueue_work(BallotContext(kind, count), WorkItem(kind, 0)),
                  raw |-> <<>>, voted |-> ContextDefault, ok |-> FALSE,
                  out |-> NoOutcome]

\* the DecompositionVote and SolutionVote arms of the loop, for the item at
\* the head of the queue
VoteArm ==
    /\ tally.phase = "ballot"
    /\ \E render \in BOOLEAN, llm \in SeqsUpTo(BallotResponses, MaxBallots),
          order \in Perms(0..(tally.count - 1)) :
       \E current_item \in {Head(tally.ctx.work_queue)}, c0 \in {dequeue_work(tally.ctx)} :
       \E step_id \in {current_item.step_id},
          in \in {[render |-> render, llm |-> llm, order |-> order]},
          vote_k \in {resolve_k(tally.opts,
                                IF tally.kind = "SolutionVote" THEN "SolutionDiscriminator"
                                ELSE "DecompositionDiscriminator", tally.agent, c0)} :
       \E result \in {IF tally.kind = "SolutionVote"
                      THEN SolutionVoteTaskRun(c0, step_id, tally.agent, vote_k, in)
                      ELSE DecompositionVoteTaskRun(c0, step_id, tally.agent, vote_k, in)} :
       \E wait \in {check_vote_triggers(tally.opts, result.ctx, step_id,
                        IF tally.kind = "SolutionVote" THEN "solution vote"
                        ELSE "decomposition vote")} :
       \E after \in {IF ~result.ok THEN result.ctx
                     ELSE IF IsSome(wait)
                     THEN pause_with(result.ctx, Unwrap(wait),
                              WorkItem(IF tally.kind = "SolutionVote" THEN "Solve"
                                       ELSE "Decomposition", step_id))
                     ELSE IF tally.kind = "SolutionVote"
                     THEN enqueue_work_front(result.ctx, WorkItem("ApplyVerify", step_id))
                     ELSE EnqueueChildren(tally.opts, result.ctx, result.effect.steps)} :
         tally' = [tally EXCEPT
                     !.phase = "voted",
                     !.raw = IF render /\ Len(llm) >= tally.agent.samples
                             THEN SubSeq(llm, 1, tally.agent.samples) ELSE <<>>,
                     !.ok = result.ok,
                     !.voted = result.ctx,
                     !.ctx = after,
                     !.out = IF ~result.ok THEN Failure
                             ELSE IF IsSome(wait) THEN Paused(after)
                             ELSE [NoOutcome EXCEPT !.kind = "Continue"]]
    /\ UNCHANGED <<context, options, domain_cfg, pc, outcome, caller, hist, store>>

NextBallot == VoteArm

SpecBallot == InitBallot /\ [][NextBallot]_vars


(***************************************************************************)
(* Properties of a vote without a valid response                           *)
(***************************************************************************)
\* the discriminator answered and no response names a candidate
NoValidChoice ==
    /\ tally.phase = "voted"
    /\ tally.raw # <<>>
    /\ ParseVotes(tally.raw, tally.count) = <<>>

LowMarginStage == IF tally.kind = "SolutionVote" THEN "solution vote" ELSE "decomposition vote"

\* C40: when no response of the discriminator parses to a choice among the
\* candidates, the vote task succeeds with candidate 0 as the winner and a
\* recorded margin of 1: a solution vote completes the step with the first
\* candidate as winning_solution, a decomposition vote adds the subtasks of
\* the first proposal; with human_low_margin_threshold >= 1 the runner then
\* pauses on low margin.
C40_NoValidVoteSelectsFirst ==
    NoValidChoice =>
        /\ tally.ok
        /\ tally.voted.metrics.per_step[0].vote_margin = Some(1)
        /\ tally.kind = "SolutionVote" =>
              /\ step(tally.voted, 0).status = "Completed"
              /\ step(tally.voted, 0).winning_solution = Some(1)
        /\ tally.kind = "DecompositionVote" => ChildDescriptions(tally.voted, 0) = <<1>>
        /\ tally.opts.human_low_margin_threshold >= 1 =>
              /\ tally.out.kind = "Paused"
              /\ tally.out.wait = Some(WaitState(0, <<LowMarginStage, "low_margin">>))
              /\ tally.ctx.wait_state = tally.out.wait

\* two candidates, two responses without a valid choice, and a pause
C40_TwoCandidatesNoChoicePaused ==
    /\ NoValidChoice
    /\ tally.count = 2
    /\ Len(tally.raw) = 2
    /\ tally.kind = "SolutionVote"
    /\ tally.out.kind = "Paused"

====
